---- MODULE Spec2Model ----
(***************************************************************************)
(* gostgrator: the migration engine (Gostgrator), the migration loader     *)
(* (getMigrations) and the dialect client's state-table operations         *)
(* (EnsureTable, PersistActionSql, GetDatabaseVersionSql, GetMd5Sql),      *)
(* modelled over a small file system of migration files and one database.  *)
(*                                                                         *)
(* Strings the code parses (the target of Migrate) are sequences of        *)
(* one-character strings, so that TrimSpace, ToLower, Atoi and Itoa are    *)
(* computed character by character.  File contents are sequences of        *)
(* characters as well.                                                     *)
(***************************************************************************)
EXTENDS Integers, Sequences, FiniteSets, TLC

VARIABLES
    fs,        \* migration files on disk matched by cfg.MigrationPattern
    edits,     \* number of file-system changes made so far (bounded)
    db,        \* the database: state-table columns and rows
    config,    \* the Config the caller handed to NewGostgrator
    g,         \* the Gostgrator value: cfg (after defaults) and cached migrations
    pc,        \* "idle", "run", "persist", "done": position of the current call
    call,      \* the call in progress or last returned: operation, arguments, start state
    prev,      \* the call that returned immediately before the current one
    dbVersion, \* Migrate's local dbVersion
    targetVersion, \* Migrate's local targetVersion
    runnable,  \* RunMigrations' argument
    idx,       \* RunMigrations' loop position (1-based)
    applied,   \* RunMigrations' result list
    ran,       \* scripts handed to the database by this call, in order
    err,       \* the error the call returned
    cancelled, \* the context of the call in progress has been cancelled
    ret,       \* what GetMaxVersion or GetMigrations returned
    other      \* a second process running Migrate against the same database

vars == <<fs, edits, db, config, g, pc, call, prev, dbVersion, targetVersion,
          runnable, idx, applied, ran, err, cancelled, ret, other>>

(***************************************************************************)
(* Bounds of the model.                                                    *)
(***************************************************************************)
MaxVersion == 3
MaxEdits == 1
MaxSteps == 2

Versions == 1..MaxVersion
FileActions == {"do", "undo"}

\* File contents: two well-formed scripts with different bytes, and one
\* script that is malformed SQL.
GoodSql == <<"s", "\n">>
OtherSql == <<"t", "\n">>
BadSql == <<"!">>
Contents == {GoodSql, OtherSql, BadSql}

(***************************************************************************)
(* Generic helpers.                                                        *)
(***************************************************************************)
MaxOf(S) == CHOOSE x \in S : \A y \in S : y <= x

Nil == [kind |-> "nil", version |-> 0]
Error(k, v) == [kind |-> k, version |-> v]

\* sql.NullString
NullString == [Valid |-> FALSE, String |-> <<>>]
ValidString(s) == [Valid |-> TRUE, String |-> s]

(***************************************************************************)
(* strings / strconv on character sequences.                               *)
(***************************************************************************)
Digits == <<"0", "1", "2", "3", "4", "5", "6", "7", "8", "9">>
DigitChars == {Digits[i] : i \in 1..10}
DigitValues == [c \in DigitChars |-> (CHOOSE i \in 1..10 : Digits[i] = c) - 1]
IsDigit(c) == c \in DigitChars
DigitVal(c) == DigitValues[c]

IsSpace(c) == c \in {" ", "\t", "\n", "\r"}

RECURSIVE TrimLeft(_)
TrimLeft(s) ==
    IF s # <<>> /\ IsSpace(Head(s)) THEN TrimLeft(Tail(s)) ELSE s

RECURSIVE TrimRight(_)
TrimRight(s) ==
    IF s # <<>> /\ IsSpace(s[Len(s)]) THEN TrimRight(SubSeq(s, 1, Len(s) - 1)) ELSE s

TrimSpace(s) == TrimRight(TrimLeft(s))

LowerChar(c) ==
    CASE c = "M" -> "m"
      [] c = "A" -> "a"
      [] c = "X" -> "x"
      [] c = "D" -> "d"
      [] c = "N" -> "n"
      [] c = "E" -> "e"
      [] c = "R" -> "r"
      [] c = "U" -> "u"
      [] c = "T" -> "t"
      [] c = "P" -> "p"
      [] c = "G" -> "g"
      [] c = "W" -> "w"
      [] OTHER -> c

ToLower(s) == [i \in 1..Len(s) |-> LowerChar(s[i])]

RECURSIVE DigitsValue(_, _)
DigitsValue(s, acc) ==
    IF s = <<>> THEN acc ELSE DigitsValue(Tail(s), acc * 10 + DigitVal(Head(s)))

\* strconv.Atoi: an optional sign followed by at least one decimal digit.
Atoi(s) ==
    LET signed == s # <<>> /\ Head(s) \in {"+", "-"}
        body == IF signed THEN Tail(s) ELSE s
    IN  IF body = <<>> \/ \E i \in 1..Len(body) : ~IsDigit(body[i])
        THEN [ok |-> FALSE, val |-> 0]
        ELSE [ok |-> TRUE,
              val |-> IF signed /\ Head(s) = "-"
                      THEN 0 - DigitsValue(body, 0)
                      ELSE DigitsValue(body, 0)]

RECURSIVE NatToSeq(_)
NatToSeq(n) ==
    IF n < 10 THEN <<Digits[n + 1]>>
    ELSE Append(NatToSeq(n \div 10), Digits[(n % 10) + 1])

\* strconv.Itoa
Itoa(n) == IF n < 0 THEN <<"-">> \o NatToSeq(0 - n) ELSE NatToSeq(n)

\* Zero-padded to three digits, as the scaffolder and the test data name files.
Pad3(n) ==
    LET d == NatToSeq(n)
    IN  IF Len(d) >= 3 THEN d
        ELSE [i \in 1..(3 - Len(d)) |-> "0"] \o d

(***************************************************************************)
(* Migration loader.                                                       *)
(* A file is [parts, content]: parts is its base name without ".sql",      *)
(* split on "." (a version prefix, an action, then the segments of the     *)
(* name, if any); content is its bytes.                                    *)
(***************************************************************************)
File(prefix, action, name, content) ==
    [parts |-> <<prefix, action, name>>, content |-> content]

\* strings.Split of a character sequence on a one-character separator.
RECURSIVE Split(_, _)
Split(s, sep) ==
    IF \A i \in 1..Len(s) : s[i] # sep THEN <<s>>
    ELSE LET i == CHOOSE i \in 1..Len(s) : s[i] = sep /\ \A j \in 1..(i - 1) : s[j] # sep
         IN  <<SubSeq(s, 1, i - 1)>> \o Split(SubSeq(s, i + 1, Len(s)), sep)

\* strings.Join
RECURSIVE Join(_, _)
Join(elems, sep) ==
    IF elems = <<>> THEN <<>>
    ELSE IF Len(elems) = 1 THEN elems[1]
    ELSE elems[1] \o sep \o Join(Tail(elems), sep)

SqlExt == <<".", "s", "q", "l">>

\* The second segment of a base name as the word the model keeps for it.
ActionWord(segment) ==
    CASE segment = <<"d", "o">> -> "do"
      [] segment = <<"u", "n", "d", "o">> -> "undo"
      [] segment = <<"b", "a", "k">> -> "bak"
      [] OTHER -> "other"

\* A ".sql" file found under a base name: filepath.Ext trimmed off, the rest
\* split on ".".
FileNamed(base, content) ==
    LET n == Len(base)
        baseNoExt == IF n >= 4 /\ SubSeq(base, n - 3, n) = SqlExt
                     THEN SubSeq(base, 1, n - 4) ELSE base
        segments == Split(baseNoExt, ".")
    IN  [parts |-> [i \in 1..Len(segments) |->
                        IF i = 2 THEN ActionWord(segments[i]) ELSE segments[i]],
         content |-> content]

\* Order of path names, as filepath.Glob returns them sorted: byte-wise on
\* the version prefix, then on the action ("do" before "undo").
CharRank(c) == IF IsDigit(c) THEN DigitVal(c) ELSE 10

RECURSIVE SeqLess(_, _)
SeqLess(a, b) ==
    IF b = <<>> THEN FALSE
    ELSE IF a = <<>> THEN TRUE
    ELSE IF CharRank(Head(a)) # CharRank(Head(b))
         THEN CharRank(Head(a)) < CharRank(Head(b))
         ELSE SeqLess(Tail(a), Tail(b))

ActionRank(a) == IF a = "do" THEN 1 ELSE IF a = "undo" THEN 2 ELSE 0

\* The bytes a name is made of, in byte order.
Bytes ==
    <<"-", ".", "0", "1", "2", "3", "4", "5", "6", "7", "8", "9",
      "a", "b", "c", "d", "e", "f", "g", "h", "i", "j", "k", "l", "m",
      "n", "o", "p", "q", "r", "s", "t", "u", "v", "w", "x", "y", "z">>

ByteRank(c) ==
    IF \E i \in 1..Len(Bytes) : Bytes[i] = c
    THEN CHOOSE i \in 1..Len(Bytes) : Bytes[i] = c
    ELSE 0

RECURSIVE BytesLess(_, _)
BytesLess(a, b) ==
    IF b = <<>> THEN FALSE
    ELSE IF a = <<>> THEN TRUE
    ELSE IF ByteRank(Head(a)) # ByteRank(Head(b))
         THEN ByteRank(Head(a)) < ByteRank(Head(b))
         ELSE BytesLess(Tail(a), Tail(b))

\* What follows the action in a base name.
NameTail(f) ==
    (IF Len(f.parts) > 2
     THEN <<".">> \o Join(SubSeq(f.parts, 3, Len(f.parts)), <<".">>)
     ELSE <<>>) \o SqlExt

PathLess(f1, f2) ==
    \/ SeqLess(f1.parts[1], f2.parts[1])
    \/ /\ f1.parts[1] = f2.parts[1]
       /\ ActionRank(f1.parts[2]) < ActionRank(f2.parts[2])
    \/ /\ f1.parts[1] = f2.parts[1]
       /\ f1.parts[2] = f2.parts[2]
       /\ BytesLess(NameTail(f1), NameTail(f2))

RECURSIVE Glob(_)
Glob(files) ==
    IF files = {} THEN <<>>
    ELSE LET first == CHOOSE f \in files : \A o \in files \ {f} : PathLess(f, o)
         IN  <<first>> \o Glob(files \ {first})

\* Mutant: a \r that stands alone is left as it is.
RECURSIVE ReplaceNewlinesKeepingCr(_, _)
ReplaceNewlinesKeepingCr(content, target) ==
    IF content = <<>> THEN <<>>
    ELSE IF Len(content) >= 2 /\ content[1] = "\r" /\ content[2] = "\n"
         THEN target \o ReplaceNewlinesKeepingCr(SubSeq(content, 3, Len(content)), target)
    ELSE IF Head(content) = "\n"
         THEN target \o ReplaceNewlinesKeepingCr(Tail(content), target)
    ELSE <<Head(content)>> \o ReplaceNewlinesKeepingCr(Tail(content), target)

\* convertLineEnding: every \r\n, \r or \n becomes the target terminator.
RECURSIVE ReplaceNewlines(_, _)
ReplaceNewlines(content, target) ==
    IF content = <<>> THEN <<>>
    ELSE IF Len(content) >= 2 /\ content[1] = "\r" /\ content[2] = "\n"
         THEN target \o ReplaceNewlines(SubSeq(content, 3, Len(content)), target)
    ELSE IF Head(content) \in {"\r", "\n"}
         THEN target \o ReplaceNewlines(Tail(content), target)
    ELSE <<Head(content)>> \o ReplaceNewlines(Tail(content), target)

\* Mutant: a mode that is none of the three converts to LF.
convertLineEndingDefaultLF(content, lineEnding) ==
    CASE lineEnding = "CR" -> [ok |-> TRUE, out |-> ReplaceNewlines(content, <<"\r">>)]
      [] lineEnding = "CRLF" -> [ok |-> TRUE, out |-> ReplaceNewlines(content, <<"\r", "\n">>)]
      [] OTHER -> [ok |-> TRUE, out |-> ReplaceNewlines(content, <<"\n">>)]

convertLineEnding(content, lineEnding) ==
    CASE lineEnding = "LF" -> [ok |-> TRUE, out |-> ReplaceNewlines(content, <<"\n">>)]
      [] lineEnding = "CR" -> [ok |-> TRUE, out |-> ReplaceNewlines(content, <<"\r">>)]
      [] lineEnding = "CRLF" -> [ok |-> TRUE, out |-> ReplaceNewlines(content, <<"\r", "\n">>)]
      [] OTHER -> [ok |-> FALSE, out |-> <<>>]

\* md5.Sum + hex: a digest that is one-to-one on the contents of the model.
Md5Sum(content) == <<"md5:">> \o content

checksum(content, lineEnding) ==
    IF lineEnding # ""
    THEN LET c == convertLineEnding(content, lineEnding)
         IN  IF c.ok THEN [ok |-> TRUE, sum |-> Md5Sum(c.out)]
             ELSE [ok |-> FALSE, sum |-> <<>>]
    ELSE [ok |-> TRUE, sum |-> Md5Sum(content)]

\* Mutant: the name taken from the third segment alone.
MigrationNamedByThirdSegment(version, action, file, md5sum) ==
    [Version |-> version, Action |-> action, Filename |-> file.parts,
     Name |-> IF Len(file.parts) > 2 THEN file.parts[3] ELSE <<>>,
     Md5 |-> md5sum]

\* The Migration value getMigrations builds for one file.
Migration(version, action, file, md5sum) ==
    [Version |-> version, Action |-> action, Filename |-> file.parts,
     Name |-> IF Len(file.parts) > 2
              THEN Join(SubSeq(file.parts, 3, Len(file.parts)), <<".">>)
              ELSE <<>>,
     Md5 |-> md5sum]

\* Mutant: the loader without its duplicate check.
RECURSIVE LoadFilesKeepingDuplicates(_, _, _)
LoadFilesKeepingDuplicates(files, cfg, migrations) ==
    IF files = <<>> THEN [err |-> Nil, migrations |-> migrations]
    ELSE LET file == Head(files)
             version == Atoi(file.parts[1])
             sum == checksum(file.content, cfg.Newline)
         IN  IF Len(file.parts) < 2 \/ ~version.ok
             THEN LoadFilesKeepingDuplicates(Tail(files), cfg, migrations)
             ELSE LoadFilesKeepingDuplicates(Tail(files), cfg,
                      Append(migrations,
                             Migration(version.val, file.parts[2], file, sum.sum)))

\* The loop of getMigrations over the globbed files.
RECURSIVE LoadFiles(_, _, _)
LoadFiles(files, cfg, migrations) ==
    IF files = <<>> THEN [err |-> Nil, migrations |-> migrations]
    ELSE LET file == Head(files)
             version == Atoi(file.parts[1])
             action == file.parts[2]
             sum == checksum(file.content, cfg.Newline)
         IN  IF Len(file.parts) < 2 THEN LoadFiles(Tail(files), cfg, migrations)
             ELSE IF ~version.ok THEN LoadFiles(Tail(files), cfg, migrations)
             ELSE IF ~sum.ok THEN [err |-> Error("newline", version.val), migrations |-> <<>>]
             ELSE IF \E i \in 1..Len(migrations) :
                        /\ migrations[i].Version = version.val
                        /\ migrations[i].Action = action
                  THEN [err |-> Error("duplicate", version.val), migrations |-> <<>>]
             ELSE LoadFiles(Tail(files), cfg,
                            Append(migrations, Migration(version.val, action, file, sum.sum)))

getMigrations(cfg, files) == LoadFiles(Glob(files), cfg, <<>>)

\* Migration.GetSQL: reads the file named by the migration from disk.
GetSQL(m, files) ==
    IF \E f \in files : f.parts = m.Filename
    THEN [ok |-> TRUE, sql |-> (CHOOSE f \in files : f.parts = m.Filename).content]
    ELSE [ok |-> FALSE, sql |-> <<>>]

\* sortMigrationsAsc / sortMigrationsDesc
RECURSIVE sortMigrationsAsc(_)
sortMigrationsAsc(migs) ==
    IF migs = <<>> THEN <<>>
    ELSE LET i == CHOOSE i \in 1..Len(migs) :
                      \A j \in 1..Len(migs) : migs[i].Version <= migs[j].Version
         IN  <<migs[i]>> \o
             sortMigrationsAsc(SubSeq(migs, 1, i - 1) \o SubSeq(migs, i + 1, Len(migs)))

RECURSIVE sortMigrationsDesc(_)
sortMigrationsDesc(migs) ==
    IF migs = <<>> THEN <<>>
    ELSE LET i == CHOOSE i \in 1..Len(migs) :
                      \A j \in 1..Len(migs) : migs[i].Version >= migs[j].Version
         IN  <<migs[i]>> \o
             sortMigrationsDesc(SubSeq(migs, 1, i - 1) \o SubSeq(migs, i + 1, Len(migs)))

(***************************************************************************)
(* The database and the dialect client.                                    *)
(* db.columns is what the dialect's column query returns for the state     *)
(* table (empty: no such table); db.rows is the table's content.  The      *)
(* base client's getColumnsSql/getAdd*Sql are supplied by the dialect      *)
(* (NewPostgresClient / NewSqlite3Client set the function pointers).       *)
(***************************************************************************)
Row(version, name, md5) == [version |-> version, name |-> name, md5 |-> md5]
Sentinel == Row(0, NullString, NullString)

\* Column names compare without regard to case (strings.EqualFold; SQL identifiers).
FoldColumn(c) ==
    CASE c = "VERSION" -> "version"
      [] c = "NAME" -> "name"
      [] c = "MD5" -> "md5"
      [] c = "RUN_AT" -> "run_at"
      [] OTHER -> c

hasColumn(columns, name) == \E col \in columns : FoldColumn(col) = FoldColumn(name)

\* Mutant: a state table whose version column is no key.
ExecQueryWithoutKey(d, q) ==
    CASE q.op = "create" ->
            IF d.columns # {} THEN [err |-> Error("table exists", 0), db |-> d]
            ELSE [err |-> Nil, db |-> [d EXCEPT !.columns = {"version"}]]
      [] q.op = "addcol" ->
            IF d.columns = {} \/ hasColumn(d.columns, q.col)
            THEN [err |-> Error("duplicate column", 0), db |-> d]
            ELSE [err |-> Nil, db |-> [d EXCEPT !.columns = @ \cup {q.col}]]
      [] q.op = "insert" ->
            IF \E c \in q.cols : ~hasColumn(d.columns, c)
            THEN [err |-> Error("insert", q.row.version), db |-> d]
            ELSE [err |-> Nil, db |-> [d EXCEPT !.rows = @ \cup {q.row}]]
      [] q.op = "delete" ->
            IF d.columns = {} THEN [err |-> Error("delete", q.version), db |-> d]
            ELSE [err |-> Nil,
                  db |-> [d EXCEPT !.rows = {r \in @ : r.version # q.version}]]
      [] OTHER -> [err |-> Nil, db |-> d]

\* One statement executed by the database (DB.ExecContext).
ExecQuery(d, q) ==
    CASE q.op = "create" ->
            IF d.columns # {} THEN [err |-> Error("table exists", 0), db |-> d]
            ELSE [err |-> Nil, db |-> [d EXCEPT !.columns = {"version"}]]
      [] q.op = "addcol" ->
            IF d.columns = {} \/ hasColumn(d.columns, q.col)
            THEN [err |-> Error("duplicate column", 0), db |-> d]
            ELSE [err |-> Nil, db |-> [d EXCEPT !.columns = @ \cup {q.col}]]
      [] q.op = "insert" ->
            IF \/ \E c \in q.cols : ~hasColumn(d.columns, c)
               \/ \E r \in d.rows : r.version = q.row.version
            THEN [err |-> Error("insert", q.row.version), db |-> d]
            ELSE [err |-> Nil, db |-> [d EXCEPT !.rows = @ \cup {q.row}]]
      [] q.op = "delete" ->
            IF d.columns = {} THEN [err |-> Error("delete", q.version), db |-> d]
            ELSE [err |-> Nil,
                  db |-> [d EXCEPT !.rows = {r \in @ : r.version # q.version}]]
      [] OTHER -> [err |-> Nil, db |-> d]

RECURSIVE ExecAll(_, _)
ExecAll(d, queries) ==
    IF queries = <<>> THEN [err |-> Nil, db |-> d]
    ELSE LET r == ExecQuery(d, Head(queries))
         IN  IF r.err # Nil THEN r ELSE ExecAll(r.db, Tail(queries))

CreateTableSql == [op |-> "create"]
InsertSentinelSql == [op |-> "insert", cols |-> {"version"}, row |-> Sentinel]
AddColumnSql(col) == [op |-> "addcol", col |-> col]

\* Mutant: the table created whatever the column query returned.
EnsureTableAlwaysCreates(d) ==
    ExecAll(d, <<CreateTableSql, InsertSentinelSql, AddColumnSql("name"),
                 AddColumnSql("md5"), AddColumnSql("run_at")>>)

\* BaseClient.EnsureTable: the statements it queues for the columns it read.
EnsureTableQueries(columns) ==
    LET create == IF columns = {} THEN <<CreateTableSql, InsertSentinelSql>> ELSE <<>>
        addName == IF ~hasColumn(columns, "name") THEN <<AddColumnSql("name")>> ELSE <<>>
        addMd5 == IF ~hasColumn(columns, "md5") THEN <<AddColumnSql("md5")>> ELSE <<>>
        addRunAt == IF ~hasColumn(columns, "run_at") THEN <<AddColumnSql("run_at")>> ELSE <<>>
    IN  create \o addName \o addMd5 \o addRunAt

\* Mutant: the table emptied before its columns are completed.
EnsureTableEmptying(d) ==
    ExecAll([d EXCEPT !.rows = {}], EnsureTableQueries(d.columns))

\* BaseClient.EnsureTable
EnsureTable(d) == ExecAll(d, EnsureTableQueries(d.columns))

\* BaseClient.HasVersionTable
HasVersionTable(d) == d.columns # {}

\* Mutant: nothing persisted for a Revert migration.
PersistActionSqlInsertOnly(m) ==
    IF m.Action = "do"
    THEN [op |-> "insert", cols |-> {"version", "name", "md5", "run_at"},
          row |-> Row(m.Version, ValidString(m.Name), ValidString(m.Md5))]
    ELSE [op |-> "empty"]

\* Mutant: a Revert migration deletes the row of the version below its own.
PersistActionSqlRowBelow(m) ==
    IF m.Action = "do"
    THEN [op |-> "insert", cols |-> {"version", "name", "md5", "run_at"},
          row |-> Row(m.Version, ValidString(m.Name), ValidString(m.Md5))]
    ELSE IF m.Action = "undo"
    THEN [op |-> "delete", version |-> m.Version - 1]
    ELSE [op |-> "empty"]

\* BaseClient.PersistActionSql
PersistActionSql(m) ==
    IF m.Action = "do"
    THEN [op |-> "insert", cols |-> {"version", "name", "md5", "run_at"},
          row |-> Row(m.Version, ValidString(m.Name), ValidString(m.Md5))]
    ELSE IF m.Action = "undo"
    THEN [op |-> "delete", version |-> m.Version]
    ELSE [op |-> "empty"]

\* BaseClient.GetMd5Sql, run and scanned into a sql.NullString
QueryMd5(d, m) ==
    IF \E r \in d.rows : r.version = m.Version
    THEN (CHOOSE r \in d.rows : r.version = m.Version).md5
    ELSE NullString

\* A migration script executed by the database: malformed SQL is rejected.
ScriptFails(sql) == \E i \in 1..Len(sql) : sql[i] = "!"

(***************************************************************************)
(* The engine.                                                             *)
(***************************************************************************)
DefaultValidateChecksums == TRUE

\* Mutant: a driver that is not recognised gets the Postgres client.
NewClientFallsBack(c) ==
    LET driver == ToLower(c.Driver)
    IN  IF driver = <<"s", "q", "l", "i", "t", "e", "3">>
        THEN [err |-> Nil, client |-> "sqlite3"]
        ELSE [err |-> Nil, client |-> "pg"]

\* NewClient: the dialect client for cfg.Driver.
NewClient(c) ==
    LET driver == ToLower(c.Driver)
    IN  IF driver = <<"p", "g">> THEN [err |-> Nil, client |-> "pg"]
        ELSE IF driver = <<"s", "q", "l", "i", "t", "e", "3">>
        THEN [err |-> Nil, client |-> "sqlite3"]
        ELSE [err |-> Error("unsupported driver", 0), client |-> "nil"]

\* The nil *Gostgrator.
NoEngine ==
    [cfg |-> [ValidateChecksums |-> FALSE, Newline |-> "", Driver |-> <<>>],
     migrations |-> <<>>, client |-> "nil"]

\* NewGostgrator: merges the defaults into the caller's Config and builds
\* the dialect client.
NewGostgrator(c) ==
    LET cfg == [c EXCEPT !.ValidateChecksums =
                    IF ~c.ValidateChecksums THEN DefaultValidateChecksums ELSE @]
        client == NewClient(cfg)
    IN  IF client.err # Nil THEN [err |-> client.err, g |-> NoEngine]
        ELSE [err |-> Nil,
              g |-> [cfg |-> cfg, migrations |-> <<>>, client |-> client.client]]

\* Mutant: the version query ordered ascending, so that the first row is the lowest.
GetDatabaseVersionLowest(d) ==
    IF ~HasVersionTable(d) THEN 0
    ELSE IF d.rows = {} THEN 0
    ELSE CHOOSE v \in {r.version : r \in d.rows} : \A r \in d.rows : v <= r.version

\* Gostgrator.GetDatabaseVersion
GetDatabaseVersion(d) ==
    IF ~HasVersionTable(d) THEN 0
    ELSE IF d.rows = {} THEN 0
    ELSE MaxOf({r.version : r \in d.rows})

\* Mutant: the highest version among the Apply migrations only.
GetMaxVersionOfApply(migrations, cfg, files) ==
    LET load == IF Len(migrations) = 0 THEN getMigrations(cfg, files)
                ELSE [err |-> Nil, migrations |-> migrations]
    IN  IF load.err # Nil THEN [err |-> load.err, max |-> 0, migrations |-> migrations]
        ELSE [err |-> Nil,
              max |-> MaxOf({0} \cup {load.migrations[i].Version :
                                i \in {j \in 1..Len(load.migrations) :
                                          load.migrations[j].Action = "do"}}),
              migrations |-> load.migrations]

\* Gostgrator.GetMaxVersion; migrations is g.migrations when it is called.
GetMaxVersion(migrations, cfg, files) ==
    LET load == IF Len(migrations) = 0 THEN getMigrations(cfg, files)
                ELSE [err |-> Nil, migrations |-> migrations]
    IN  IF load.err # Nil THEN [err |-> load.err, max |-> 0, migrations |-> migrations]
        ELSE [err |-> Nil,
              max |-> MaxOf({0} \cup {load.migrations[i].Version : i \in 1..Len(load.migrations)}),
              migrations |-> load.migrations]

\* Mutant: the migration of the current database version left unchecked.
RECURSIVE CheckMd5BelowVersion(_, _, _)
CheckMd5BelowVersion(migrations, d, databaseVersion) ==
    IF migrations = <<>> THEN Nil
    ELSE LET m == Head(migrations)
             dbMd5 == QueryMd5(d, m)
         IN  IF /\ m.Action = "do" /\ m.Version > 0 /\ m.Version < databaseVersion
                /\ dbMd5.Valid /\ m.Md5 # <<>> /\ dbMd5.String # m.Md5
             THEN Error("checksum", m.Version)
             ELSE CheckMd5BelowVersion(Tail(migrations), d, databaseVersion)

\* Mutant: a recorded version without a stored checksum is a mismatch.
RECURSIVE CheckMd5RequiringChecksum(_, _, _)
CheckMd5RequiringChecksum(migrations, d, databaseVersion) ==
    IF migrations = <<>> THEN Nil
    ELSE LET m == Head(migrations)
             dbMd5 == QueryMd5(d, m)
         IN  IF /\ m.Action = "do" /\ m.Version > 0 /\ m.Version <= databaseVersion
                /\ m.Md5 # <<>> /\ dbMd5.String # m.Md5
             THEN Error("checksum", m.Version)
             ELSE CheckMd5RequiringChecksum(Tail(migrations), d, databaseVersion)

\* The loop of ValidateMigrations.
RECURSIVE CheckMd5(_, _, _)
CheckMd5(migrations, d, databaseVersion) ==
    IF migrations = <<>> THEN Nil
    ELSE LET m == Head(migrations)
             dbMd5 == QueryMd5(d, m)
         IN  IF /\ m.Action = "do" /\ m.Version > 0 /\ m.Version <= databaseVersion
                /\ dbMd5.Valid /\ m.Md5 # <<>> /\ dbMd5.String # m.Md5
             THEN Error("checksum", m.Version)
             ELSE CheckMd5(Tail(migrations), d, databaseVersion)

\* Gostgrator.ValidateMigrations
ValidateMigrations(cfg, files, d, databaseVersion) ==
    LET load == getMigrations(cfg, files)
    IN  IF load.err # Nil THEN load.err
        ELSE CheckMd5(load.migrations, d, databaseVersion)

\* The migrations of one action with low < Version <= high, in loaded order.
SelectMigrations(migrations, action, low, high) ==
    LET F[i \in 0..Len(migrations)] ==
            IF i = 0 THEN <<>>
            ELSE IF /\ migrations[i].Action = action
                    /\ migrations[i].Version > low
                    /\ migrations[i].Version <= high
                 THEN Append(F[i - 1], migrations[i])
            ELSE F[i - 1]
    IN  F[Len(migrations)]

\* Mutant: the Apply migration of the target version left out.
GetRunnableMigrationsBelowTarget(migrations, databaseVersion, target) ==
    IF target > databaseVersion
    THEN sortMigrationsAsc(SelectMigrations(migrations, "do", databaseVersion, target - 1))
    ELSE IF target < databaseVersion
    THEN sortMigrationsDesc(SelectMigrations(migrations, "undo", target, databaseVersion))
    ELSE <<>>

\* Mutant: an upward run starts from version 0 whatever the database version.
GetRunnableMigrationsFromZero(migrations, databaseVersion, target) ==
    IF target > databaseVersion
    THEN sortMigrationsAsc(SelectMigrations(migrations, "do", 0, target))
    ELSE IF target < databaseVersion
    THEN sortMigrationsDesc(SelectMigrations(migrations, "undo", target, databaseVersion))
    ELSE <<>>

\* Mutant: a request for the current version runs its Apply migration again.
GetRunnableMigrationsFromCurrent(migrations, databaseVersion, target) ==
    IF target >= databaseVersion
    THEN sortMigrationsAsc(SelectMigrations(migrations, "do", databaseVersion - 1, target))
    ELSE sortMigrationsDesc(SelectMigrations(migrations, "undo", target, databaseVersion))

\* Mutant: a downward run reverts the target version too.
GetRunnableMigrationsThroughTarget(migrations, databaseVersion, target) ==
    IF target > databaseVersion
    THEN sortMigrationsAsc(SelectMigrations(migrations, "do", databaseVersion, target))
    ELSE IF target < databaseVersion
    THEN sortMigrationsDesc(SelectMigrations(migrations, "undo", target - 1, databaseVersion))
    ELSE <<>>

\* Gostgrator.GetRunnableMigrations
GetRunnableMigrations(migrations, databaseVersion, target) ==
    IF target > databaseVersion
    THEN sortMigrationsAsc(SelectMigrations(migrations, "do", databaseVersion, target))
    ELSE IF target < databaseVersion
    THEN sortMigrationsDesc(SelectMigrations(migrations, "undo", target, databaseVersion))
    ELSE <<>>

\* Mutant: a target above the highest migration version is rejected.
ResolveTargetChecked(target, migrations, cfg, files) ==
    LET cleaned == ToLower(TrimSpace(target))
        mv == GetMaxVersion(migrations, cfg, files)
        n == Atoi(cleaned)
    IN  IF cleaned = <<"m", "a", "x">> \/ cleaned = <<>>
        THEN [err |-> mv.err, version |-> mv.max]
        ELSE IF n.ok /\ n.val <= mv.max THEN [err |-> Nil, version |-> n.val]
        ELSE [err |-> Error("invalid target version", 0), version |-> 0]

\* Migrate's resolution of its target argument.
ResolveTarget(target, migrations, cfg, files) ==
    LET cleaned == ToLower(TrimSpace(target))
    IN  IF cleaned = <<"m", "a", "x">> \/ cleaned = <<>>
        THEN LET mv == GetMaxVersion(migrations, cfg, files)
             IN  [err |-> mv.err, version |-> mv.max]
        ELSE LET n == Atoi(cleaned)
             IN  IF n.ok THEN [err |-> Nil, version |-> n.val]
                 ELSE [err |-> Error("invalid target version", 0), version |-> 0]

\* Migrate up to the call of RunMigrations: the state table ensured, the
\* migrations reloaded, the target resolved, the checksums validated and the
\* runnable list computed.
PlanFailed(error, d, migrations) ==
    [err |-> error, db |-> d, migrations |-> migrations,
     targetVersion |-> 0, dbVersion |-> 0, runnable |-> <<>>]

\* Mutant: the checksums validated whatever the direction of the request.
MigratePlanAlwaysValidates(e, files, d, target) ==
    LET ensured == EnsureTable(d)
        load == getMigrations(e.cfg, files)
        tv == ResolveTarget(target, load.migrations, e.cfg, files)
        dbv == GetDatabaseVersion(ensured.db)
        valid == IF e.cfg.ValidateChecksums
                 THEN ValidateMigrations(e.cfg, files, ensured.db, dbv)
                 ELSE Nil
    IN  IF ensured.err # Nil THEN PlanFailed(ensured.err, ensured.db, e.migrations)
        ELSE IF load.err # Nil THEN PlanFailed(load.err, ensured.db, e.migrations)
        ELSE IF tv.err # Nil THEN PlanFailed(tv.err, ensured.db, load.migrations)
        ELSE IF valid # Nil THEN PlanFailed(valid, ensured.db, load.migrations)
        ELSE [err |-> Nil, db |-> ensured.db, migrations |-> load.migrations,
              targetVersion |-> tv.version, dbVersion |-> dbv,
              runnable |-> GetRunnableMigrations(load.migrations, dbv, tv.version)]

\* Migrate between EnsureTable and RunMigrations, over the database d that
\* EnsureTable left.
PlanAfterEnsure(e, files, d, target) ==
    LET load == getMigrations(e.cfg, files)
        tv == ResolveTarget(target, load.migrations, e.cfg, files)
        dbv == GetDatabaseVersion(d)
        valid == IF e.cfg.ValidateChecksums /\ tv.version >= dbv
                 THEN ValidateMigrations(e.cfg, files, d, dbv)
                 ELSE Nil
    IN  IF load.err # Nil THEN PlanFailed(load.err, d, e.migrations)
        ELSE IF tv.err # Nil THEN PlanFailed(tv.err, d, load.migrations)
        ELSE IF valid # Nil THEN PlanFailed(valid, d, load.migrations)
        ELSE [err |-> Nil, db |-> d, migrations |-> load.migrations,
              targetVersion |-> tv.version, dbVersion |-> dbv,
              runnable |-> GetRunnableMigrations(load.migrations, dbv, tv.version)]

MigratePlan(e, files, d, target) ==
    LET ensured == EnsureTable(d)
    IN  IF ensured.err # Nil THEN PlanFailed(ensured.err, ensured.db, e.migrations)
        ELSE PlanAfterEnsure(e, files, ensured.db, target)

\* Gostgrator.RunMigrations as one computation: the loop over migrations from
\* position i, threading the database, the applied list and the executed scripts.
RECURSIVE RunMigrations(_, _, _, _, _, _)
RunMigrations(migrations, i, files, d, done, scripts) ==
    IF i > Len(migrations)
    THEN [err |-> Nil, db |-> d, applied |-> done, ran |-> scripts]
    ELSE LET m == migrations[i]
             sqlScript == GetSQL(m, files)
             r == ExecQuery(d, PersistActionSql(m))
             executed == Append(scripts, <<m.Version, m.Action>>)
         IN  IF ~sqlScript.ok
             THEN [err |-> Error("read", m.Version), db |-> d, applied |-> done, ran |-> scripts]
             ELSE IF ScriptFails(sqlScript.sql)
             THEN [err |-> Error("exec", m.Version), db |-> d, applied |-> done, ran |-> scripts]
             ELSE IF r.err # Nil
             THEN [err |-> r.err, db |-> d, applied |-> done, ran |-> executed]
             ELSE RunMigrations(migrations, i + 1, files, r.db, Append(done, m), executed)

\* Gostgrator.Migrate as one computation.
MigrateOutcome(e, files, d, target) ==
    LET plan == MigratePlan(e, files, d, target)
    IN  IF plan.err # Nil
        THEN [err |-> plan.err, db |-> plan.db, applied |-> <<>>, ran |-> <<>>]
        ELSE RunMigrations(plan.runnable, 1, files, plan.db, <<>>, <<>>)

(***************************************************************************)
(* State machine.                                                          *)
(***************************************************************************)
Targets ==
    {<<"m", "a", "x">>, <<" ", "M", "a", "x">>, <<>>, <<"x">>, Itoa(MaxVersion + 1)}
        \cup {Pad3(n) : n \in 0..MaxVersion}

NoCall == [op |-> "none", target |-> <<>>, steps |-> 0, db0 |-> [columns |-> {}, rows |-> {}]]
NoPrev == [op |-> "none", target |-> <<>>, db0 |-> [columns |-> {}, rows |-> {}], err |-> Nil]
NoRet == [version |-> 0, migrations |-> <<>>]

\* The second process before it has called anything.
NoOther ==
    [pc |-> "idle", queries |-> <<>>, target |-> <<>>, dbVersion |-> 0,
     targetVersion |-> 0, runnable |-> <<>>, idx |-> 1, applied |-> <<>>,
     ran |-> <<>>, err |-> Nil]

\* The migration pair of version v as the test data has it.
Pair(v) == {File(Pad3(v), a, <<"a">>, GoodSql) : a \in FileActions}

\* The migration folder at start: a pair for every version, or for every
\* version but one in the middle (a gap in the numbering).
InitVersionSets == {Versions} \cup {Versions \ {v} : v \in 2..(MaxVersion - 1)}

\* Column sets of a state table found in the database at start: no table,
\* the bare table, and a table that lacks the run_at column.
InitColumns == {{}, {"version"}, {"version", "name", "md5"}}

Init ==
    /\ \E vs \in InitVersionSets : fs = UNION {Pair(v) : v \in vs}
    /\ edits = 0
    /\ \E cols \in InitColumns :
           db = [columns |-> cols, rows |-> IF cols = {} THEN {} ELSE {Sentinel}]
    /\ config = [ValidateChecksums |-> TRUE, Newline |-> "", Driver |-> <<"p", "g">>]
    /\ g = NewGostgrator(config).g
    /\ pc = "idle"
    /\ call = NoCall
    /\ prev = NoPrev
    /\ dbVersion = 0
    /\ targetVersion = 0
    /\ runnable = <<>>
    /\ idx = 1
    /\ applied = <<>>
    /\ ran = <<>>
    /\ err = Nil
    /\ cancelled = FALSE
    /\ ret = NoRet
    /\ other = NoOther

Returned == pc \in {"idle", "done", "repaired"}

\* What a call remembers of the call that returned just before it: kept when
\* EnsureTable follows EnsureTable, when Migrate follows a Migrate to "max" and
\* when Migrate follows a failed Migrate whose script has been repaired.  A
\* cancelled call is not remembered.
Remembered(op) ==
    /\ call.op = op
    /\ ~cancelled
    /\ \/ pc = "done" /\ op = "ensure"
       \/ pc = "done" /\ op = "migrate" /\ ToLower(TrimSpace(call.target)) = <<"m", "a", "x">>
       \/ pc = "repaired" /\ op = "migrate"

Summary(op) ==
    IF Remembered(op)
    THEN [op |-> call.op, target |-> call.target, db0 |-> call.db0, err |-> err]
    ELSE NoPrev

\* Gostgrator.Migrate, from its entry to the first iteration of RunMigrations.
Enter(op, target, steps) ==
    \E plan \in {MigratePlan(g, fs, db, target)} :
        /\ call' = [op |-> op, target |-> target, steps |-> steps, db0 |-> db]
        /\ prev' = Summary(op)
        /\ db' = plan.db
        /\ g' = [g EXCEPT !.migrations = plan.migrations]
        /\ err' = plan.err
        /\ dbVersion' = plan.dbVersion
        /\ targetVersion' = plan.targetVersion
        /\ runnable' = plan.runnable
        /\ idx' = 1
        /\ applied' = <<>>
        /\ ran' = <<>>
        /\ cancelled' = FALSE
        /\ ret' = NoRet
        /\ pc' = IF plan.err = Nil /\ plan.runnable # <<>> THEN "run" ELSE "done"
        /\ UNCHANGED <<other, fs, edits, config>>

Migrate(target) ==
    /\ Returned
    /\ Enter("migrate", target, 0)

\* Mutant: one step back whatever the number of steps.
DownTargetOneStep(currentVersion, steps) ==
    IF currentVersion - 1 > 0 THEN currentVersion - 1 ELSE 0

\* Gostgrator.Down
DownTarget(currentVersion, steps) ==
    IF currentVersion - steps > 0 THEN currentVersion - steps ELSE 0

Down(steps) ==
    /\ Returned
    /\ Enter("down", Itoa(DownTarget(GetDatabaseVersion(db), steps)), steps)

\* Mutant: the migration counted as applied before its script has run.
RunScriptCountsFirst ==
    /\ pc = "run"
    /\ LET m == runnable[idx]
           sqlScript == GetSQL(m, fs)
       IN  /\ applied' = Append(applied, m)
           /\ IF ~sqlScript.ok \/ ScriptFails(sqlScript.sql)
              THEN /\ err' = Error("exec", m.Version)
                   /\ pc' = "done"
                   /\ UNCHANGED ran
              ELSE /\ ran' = Append(ran, <<m.Version, m.Action>>)
                   /\ pc' = "persist"
                   /\ UNCHANGED err
    /\ UNCHANGED <<other, cancelled, ret, fs, edits, db, config, g, call, prev, dbVersion, targetVersion,
                   runnable, idx>>

\* Mutant: the script executed without regard to the context.
RunScriptIgnoresCancel ==
    /\ pc = "run"
    /\ LET m == runnable[idx]
           sqlScript == GetSQL(m, fs)
       IN  IF ~sqlScript.ok
           THEN /\ err' = Error("read", m.Version)
                /\ pc' = "done"
                /\ UNCHANGED ran
           ELSE IF ScriptFails(sqlScript.sql)
           THEN /\ err' = Error("exec", m.Version)
                /\ pc' = "done"
                /\ UNCHANGED ran
           ELSE /\ ran' = Append(ran, <<m.Version, m.Action>>)
                /\ pc' = "persist"
                /\ UNCHANGED err
    /\ UNCHANGED <<other, cancelled, ret, fs, edits, db, config, g, call, prev, dbVersion, targetVersion,
                   runnable, idx, applied>>

\* RunMigrations, first half of an iteration: read the script and execute it.
\* ExecContext hands nothing to the database once its context is cancelled.
RunScript ==
    /\ pc = "run"
    /\ LET m == runnable[idx]
           sqlScript == GetSQL(m, fs)
       IN  IF ~sqlScript.ok
           THEN /\ err' = Error("read", m.Version)
                /\ pc' = "done"
                /\ UNCHANGED ran
           ELSE IF cancelled
           THEN /\ err' = Error("cancelled", m.Version)
                /\ pc' = "done"
                /\ UNCHANGED ran
           ELSE IF ScriptFails(sqlScript.sql)
           THEN /\ err' = Error("exec", m.Version)
                /\ pc' = "done"
                /\ UNCHANGED ran
           ELSE /\ ran' = Append(ran, <<m.Version, m.Action>>)
                /\ pc' = "persist"
                /\ UNCHANGED err
    /\ UNCHANGED <<other, cancelled, ret, fs, edits, db, config, g, call, prev, dbVersion, targetVersion,
                   runnable, idx, applied>>

\* Mutant: the migration counted as applied without its state-table change.
PersistWithoutRow ==
    /\ pc = "persist"
    /\ applied' = Append(applied, runnable[idx])
    /\ idx' = idx + 1
    /\ pc' = IF idx + 1 > Len(runnable) THEN "done" ELSE "run"
    /\ UNCHANGED <<other, cancelled, ret, fs, edits, db, config, g, call, prev, dbVersion, targetVersion,
                   runnable, ran, err>>

\* RunMigrations, second half of an iteration: persist the action, append to applied.
Persist ==
    /\ pc = "persist"
    /\ LET m == runnable[idx]
           r == ExecQuery(db, PersistActionSql(m))
       IN  IF cancelled
           THEN /\ err' = Error("cancelled", m.Version)
                /\ pc' = "done"
                /\ UNCHANGED <<db, applied, idx>>
           ELSE IF r.err # Nil
           THEN /\ err' = r.err
                /\ pc' = "done"
                /\ UNCHANGED <<db, applied, idx>>
           ELSE /\ db' = r.db
                /\ applied' = Append(applied, m)
                /\ idx' = idx + 1
                /\ pc' = IF idx + 1 > Len(runnable) THEN "done" ELSE "run"
                /\ UNCHANGED err
    /\ UNCHANGED <<other, cancelled, ret, fs, edits, config, g, call, prev, dbVersion, targetVersion,
                   runnable, ran>>

\* Client.EnsureTable called on its own.
CallEnsureTable ==
    /\ Returned
    /\ LET r == EnsureTable(db)
       IN  /\ db' = r.db
           /\ err' = r.err
    /\ call' = [op |-> "ensure", target |-> <<>>, steps |-> 0, db0 |-> db]
    /\ prev' = Summary("ensure")
    /\ pc' = "done"
    /\ dbVersion' = 0
    /\ targetVersion' = 0
    /\ runnable' = <<>>
    /\ idx' = 1
    /\ applied' = <<>>
    /\ ran' = <<>>
    /\ cancelled' = FALSE
    /\ ret' = NoRet
    /\ UNCHANGED <<other, fs, edits, config, g>>

\* Between calls somebody changes the migration folder.
Forget ==
    /\ pc' = "idle"
    /\ call' = NoCall
    /\ prev' = NoPrev
    /\ dbVersion' = 0
    /\ targetVersion' = 0
    /\ runnable' = <<>>
    /\ idx' = 1
    /\ applied' = <<>>
    /\ ran' = <<>>
    /\ err' = Nil
    /\ cancelled' = FALSE
    /\ ret' = NoRet

\* Files written between calls: an Apply script edited or broken, an Apply
\* script under a second spelling of a version, a Revert script added.
Writable ==
    {File(Pad3(v), "do", <<"a">>, c) : v \in Versions, c \in {OtherSql, BadSql}}
        \cup {File(Itoa(v), "do", <<"a">>, GoodSql) : v \in Versions}
        \cup {File(Pad3(v), "undo", <<"a">>, GoodSql) : v \in Versions}

WriteFile(f) ==
    /\ Returned
    /\ edits < MaxEdits
    /\ f \notin fs
    /\ fs' = {o \in fs : o.parts # f.parts} \cup {f}
    /\ edits' = edits + 1
    /\ Forget
    /\ UNCHANGED <<other, db, config, g>>

RemoveFile(f) ==
    /\ Returned
    /\ edits < MaxEdits
    /\ f \in fs
    /\ fs' = fs \ {f}
    /\ edits' = edits + 1
    /\ Forget
    /\ UNCHANGED <<other, db, config, g>>

\* The caller cancels the context of a Migrate call while its migrations run.
Cancel ==
    /\ call.op = "migrate"
    /\ pc \in {"run", "persist"}
    /\ ~cancelled
    /\ cancelled' = TRUE
    /\ UNCHANGED <<other, ret, fs, edits, db, config, g, pc, call, prev, dbVersion,
                   targetVersion, runnable, idx, applied, ran, err>>

\* After a Migrate that failed on a script, the script is put right on disk.
Repair ==
    /\ pc = "done"
    /\ call.op = "migrate"
    /\ err.kind = "exec"
    /\ LET m == runnable[idx]
       IN  fs' = {o \in fs : o.parts # m.Filename}
                     \cup {[parts |-> m.Filename, content |-> GoodSql]}
    /\ pc' = "repaired"
    /\ UNCHANGED <<other, cancelled, ret, edits, db, config, g, call, prev, dbVersion, targetVersion,
                   runnable, idx, applied, ran, err>>

Next ==
    \/ \E target \in Targets : Migrate(target)
    \/ \E steps \in 0..MaxSteps : Down(steps)
    \/ RunScript
    \/ Persist
    \/ CallEnsureTable
    \/ \E f \in Writable : WriteFile(f)
    \/ \E f \in fs : RemoveFile(f)
    \/ Repair

Spec == Init /\ [][Next]_vars

(***************************************************************************)
(* The engine's other calls, cancellation, and an engine constructed with  *)
(* checksum validation switched off in its Config.                         *)
(***************************************************************************)
\* A call that only reads: what it leaves of the call record.
ReadCall(op) ==
    /\ call' = [op |-> op, target |-> <<>>, steps |-> 0, db0 |-> db]
    /\ prev' = NoPrev
    /\ pc' = "done"
    /\ dbVersion' = 0
    /\ targetVersion' = 0
    /\ runnable' = <<>>
    /\ idx' = 1
    /\ applied' = <<>>
    /\ ran' = <<>>
    /\ cancelled' = FALSE
    /\ UNCHANGED <<other, fs, edits, db, config>>

\* Gostgrator.GetMigrations called on its own.
CallGetMigrations ==
    /\ Returned
    /\ LET load == getMigrations(g.cfg, fs)
       IN  /\ err' = load.err
           /\ g' = IF load.err = Nil THEN [g EXCEPT !.migrations = load.migrations] ELSE g
           /\ ret' = [version |-> 0, migrations |-> load.migrations]
    /\ ReadCall("migrations")

\* Gostgrator.GetMaxVersion called on its own.
CallGetMaxVersion ==
    /\ Returned
    /\ LET r == GetMaxVersion(g.migrations, g.cfg, fs)
       IN  /\ err' = r.err
           /\ g' = [g EXCEPT !.migrations = r.migrations]
           /\ ret' = [version |-> r.max, migrations |-> <<>>]
    /\ ReadCall("maxversion")

\* Mutant: the state table ensured before the version is read.
CallGetDatabaseVersionEnsuring ==
    /\ Returned
    /\ db' = EnsureTable(db).db
    /\ err' = Nil
    /\ ret' = [version |-> GetDatabaseVersion(db'), migrations |-> <<>>]
    /\ call' = [op |-> "version", target |-> <<>>, steps |-> 0, db0 |-> db]
    /\ prev' = NoPrev
    /\ pc' = "done"
    /\ dbVersion' = 0
    /\ targetVersion' = 0
    /\ runnable' = <<>>
    /\ idx' = 1
    /\ applied' = <<>>
    /\ ran' = <<>>
    /\ cancelled' = FALSE
    /\ UNCHANGED <<other, fs, edits, config, g>>

\* Gostgrator.GetDatabaseVersion called on its own.
CallGetDatabaseVersion ==
    /\ Returned
    /\ err' = Nil
    /\ ret' = [version |-> GetDatabaseVersion(db), migrations |-> <<>>]
    /\ ReadCall("version")
    /\ UNCHANGED g

\* The state at start: every migration pair on disk, a database without a
\* state table or with an empty one, and a Config that asks for no checksum
\* validation.
InitAll ==
    /\ fs = UNION {Pair(v) : v \in Versions}
    /\ edits = 0
    /\ \E cols \in {{}, {"version"}} : db = [columns |-> cols, rows |-> {}]
    /\ config = [ValidateChecksums |-> FALSE, Newline |-> "", Driver |-> <<"p", "g">>]
    /\ g = NewGostgrator(config).g
    /\ pc = "idle"
    /\ call = NoCall
    /\ prev = NoPrev
    /\ dbVersion = 0
    /\ targetVersion = 0
    /\ runnable = <<>>
    /\ idx = 1
    /\ applied = <<>>
    /\ ran = <<>>
    /\ err = Nil
    /\ cancelled = FALSE
    /\ ret = NoRet
    /\ other = NoOther

\* Targets asked of Migrate here: the highest version, a version in between
\* and version 0.
TargetsAll == {<<"m", "a", "x">>, Pad3(1), Pad3(0)}

\* Files written between calls here: an applied Apply script edited, and the
\* Apply script of a new highest version added.
WritableAll ==
    {File(Pad3(1), "do", <<"a">>, OtherSql),
     File(Pad3(MaxVersion + 1), "do", <<"a">>, GoodSql)}

NextAll ==
    \/ \E target \in TargetsAll : Migrate(target)
    \/ RunScript
    \/ Persist
    \/ \E f \in WritableAll : WriteFile(f)
    \/ \E f \in fs : RemoveFile(f)
    \/ Cancel
    \/ CallGetMigrations
    \/ CallGetMaxVersion
    \/ CallGetDatabaseVersion

SpecAll == InitAll /\ [][NextAll]_vars

(***************************************************************************)
(* Construction of the engine, the scaffolder (CreateMigration) and the    *)
(* loader over migration folders of every shape.                           *)
(***************************************************************************)
MaxFiles == 2
MaxCreated == 2

LowerLetters ==
    {"a", "b", "c", "d", "e", "f", "g", "h", "i", "j", "k", "l", "m",
     "n", "o", "p", "q", "r", "s", "t", "u", "v", "w", "x", "y", "z"}

\* kebabCase: a run of characters outside [a-z0-9] becomes one hyphen.
RECURSIVE ReplaceNonAlnum(_)
ReplaceNonAlnum(s) ==
    IF s = <<>> THEN <<>>
    ELSE IF Head(s) \in LowerLetters \cup DigitChars
         THEN <<Head(s)>> \o ReplaceNonAlnum(Tail(s))
    ELSE IF Len(s) >= 2 /\ s[2] \notin LowerLetters \cup DigitChars
         THEN ReplaceNonAlnum(Tail(s))
    ELSE <<"-">> \o ReplaceNonAlnum(Tail(s))

\* strings.Trim(s, "-")
RECURSIVE TrimHyphens(_)
TrimHyphens(s) ==
    IF s # <<>> /\ Head(s) = "-" THEN TrimHyphens(Tail(s))
    ELSE IF s # <<>> /\ s[Len(s)] = "-" THEN TrimHyphens(SubSeq(s, 1, Len(s) - 1))
    ELSE s

kebabCase(s) == TrimHyphens(ReplaceNonAlnum(ToLower(TrimSpace(s))))

\* The placeholder texts CreateMigration writes ("-- Write your migration SQL
\* here\n", "-- Write your rollback SQL here\n"), shortened.
DoContent == <<"-", "-", "m", "\n">>
UndoContent == <<"-", "-", "r", "\n">>

\* Mutant: the new pair numbered by the count of files with an integer prefix.
NextNumberByCount(files) ==
    Pad3(Cardinality({f \in files : Atoi(f.parts[1]).ok}) + 1)

\* CreateMigration in integer mode: the next number.  The base name it
\* splits still has its ".sql", so every file has at least two segments.
NextNumber(files) ==
    LET nums == {Atoi(f.parts[1]).val :
                     f \in {x \in files : Len(x.parts) + 1 >= 2 /\ Atoi(x.parts[1]).ok}}
        max == MaxOf({0} \cup nums)
    IN  Pad3(max + 1)

\* fmt.Sprintf("%s.do.%s.sql", ...) and fmt.Sprintf("%s.undo.%s.sql", ...)
doFilename(nextNumber, kebabDesc) ==
    nextNumber \o <<".", "d", "o", ".">> \o kebabDesc \o SqlExt

undoFilename(nextNumber, kebabDesc) ==
    nextNumber \o <<".", "u", "n", "d", "o", ".">> \o kebabDesc \o SqlExt

\* The two files CreateMigration writes.
NewPair(nextNumber, description) ==
    {FileNamed(doFilename(nextNumber, kebabCase(description)), DoContent),
     FileNamed(undoFilename(nextNumber, kebabCase(description)), UndoContent)}

Descriptions == {<<" ", "A", "d", "d", " ", "_", "N", "e", "w", "!">>, <<"x">>}

IntMode == <<"i", "n", "t">>

\* Gostgrator.CreateMigration(description, mode); now is what time.Now().Unix()
\* returns during the call.  os.WriteFile replaces a file of the same name.
CreateMigration(description, mode, now) ==
    /\ Returned
    /\ edits < MaxCreated
    /\ LET nextNumber == IF ToLower(mode) = <<"t", "i", "m", "e", "s", "t", "a", "m", "p">>
                         THEN Itoa(now)
                         ELSE NextNumber(fs)
           pair == NewPair(nextNumber, description)
       IN  fs' = {o \in fs : \A f \in pair : o.parts # f.parts} \cup pair
    /\ edits' = edits + 1
    /\ call' = [op |-> "create", target |-> description, steps |-> 0, db0 |-> db]
    /\ prev' = NoPrev
    /\ pc' = "done"
    /\ err' = Nil
    /\ dbVersion' = 0
    /\ targetVersion' = 0
    /\ runnable' = <<>>
    /\ idx' = 1
    /\ applied' = <<>>
    /\ ran' = <<>>
    /\ cancelled' = FALSE
    /\ ret' = NoRet
    /\ UNCHANGED <<other, db, config, g>>

Drivers ==
    {<<"p", "g">>, <<"P", "g">>, <<"s", "q", "l", "i", "t", "e", "3">>,
     <<"m", "y", "s", "q", "l">>, <<>>}

\* The caller constructs the engine: NewGostgrator(cfg, db).  Without an
\* engine ("new", "failed") there is nothing to call.
Construct(driver) ==
    /\ pc \in {"new", "failed"}
    /\ config' = [ValidateChecksums |-> TRUE, Newline |-> "", Driver |-> driver]
    /\ LET r == NewGostgrator(config')
       IN  /\ g' = r.g
           /\ err' = r.err
           /\ pc' = IF r.err = Nil THEN "idle" ELSE "failed"
    /\ UNCHANGED <<other, fs, edits, db, call, prev, dbVersion, targetVersion,
                   runnable, idx, applied, ran, cancelled, ret>>

\* Files found in a migration folder: named and unnamed migrations, a name
\* of two segments, an unpadded version, a second segment that is neither
\* "do" nor "undo", a prefix that is not an integer, a single segment.
Pool ==
    {File(Pad3(1), "do", <<"a">>, GoodSql),
     [parts |-> <<Pad3(2), "do">>, content |-> GoodSql],
     [parts |-> <<Itoa(2), "undo", <<"b">>, <<"c">>>>, content |-> GoodSql],
     File(Itoa(2), "do", <<"a">>, GoodSql),
     File(Pad3(MaxVersion + 1), "bak", <<"a">>, GoodSql),
     File(Itoa(MaxVersion + 1), "bak", <<"b">>, GoodSql),
     File(<<"1", "x">>, "do", <<"a">>, GoodSql),
     [parts |-> <<Itoa(MaxVersion + 2)>>, content |-> GoodSql]}

InitLoad ==
    /\ \E files \in SUBSET Pool : Cardinality(files) <= MaxFiles /\ fs = files
    /\ edits = 0
    /\ db = [columns |-> {}, rows |-> {}]
    /\ config = NoEngine.cfg
    /\ g = NoEngine
    /\ pc = "new"
    /\ call = NoCall
    /\ prev = NoPrev
    /\ dbVersion = 0
    /\ targetVersion = 0
    /\ runnable = <<>>
    /\ idx = 1
    /\ applied = <<>>
    /\ ran = <<>>
    /\ err = Nil
    /\ cancelled = FALSE
    /\ ret = NoRet
    /\ other = NoOther

NextLoad ==
    \/ \E driver \in Drivers : Construct(driver)
    \/ \E description \in Descriptions : CreateMigration(description, IntMode, 0)
    \/ CallGetMigrations
    \/ CallGetMaxVersion
    \/ Migrate(<<"m", "a", "x">>)
    \/ RunScript
    \/ Persist

SpecLoad == InitLoad /\ [][NextLoad]_vars

(***************************************************************************)
(* Two processes against one database.  The second process runs the same   *)
(* Migrate; its EnsureTable is taken statement by statement, so that the    *)
(* first process can act between the second's reading of the columns and    *)
(* each statement it then executes.                                         *)
(***************************************************************************)
\* The second process's Config: the same migrations and database, on a host
\* that normalises line endings before the checksum is taken.
OtherConfig == [ValidateChecksums |-> TRUE, Newline |-> "CRLF", Driver |-> <<"p", "g">>]

OtherEngine == NewGostgrator(OtherConfig).g

TargetsTwo == {<<"m", "a", "x">>, Pad3(0)}

\* Mutant: Migrate waits until no other Migrate is under way.
OtherMigrateWaits(target) ==
    /\ Returned
    /\ other.pc \in {"idle", "done"}
    /\ other' = [NoOther EXCEPT !.pc = "ensure",
                                !.queries = EnsureTableQueries(db.columns),
                                !.target = target]
    /\ UNCHANGED <<fs, edits, db, config, g, pc, call, prev, dbVersion, targetVersion,
                   runnable, idx, applied, ran, err, cancelled, ret>>

\* Migrate entered by the second process: EnsureTable reads the columns.
OtherMigrate(target) ==
    /\ other.pc \in {"idle", "done"}
    /\ other' = [NoOther EXCEPT !.pc = "ensure",
                                !.queries = EnsureTableQueries(db.columns),
                                !.target = target]
    /\ UNCHANGED <<fs, edits, db, config, g, pc, call, prev, dbVersion, targetVersion,
                   runnable, idx, applied, ran, err, cancelled, ret>>

\* EnsureTable's loop over its queued statements: one statement.
OtherExec ==
    /\ other.pc = "ensure"
    /\ other.queries # <<>>
    /\ LET r == ExecQuery(db, Head(other.queries))
       IN  IF r.err # Nil
           THEN /\ other' = [other EXCEPT !.pc = "done", !.err = r.err]
                /\ UNCHANGED db
           ELSE /\ other' = [other EXCEPT !.queries = Tail(@)]
                /\ db' = r.db
    /\ UNCHANGED <<fs, edits, config, g, pc, call, prev, dbVersion, targetVersion,
                   runnable, idx, applied, ran, err, cancelled, ret>>

\* Migrate after EnsureTable has returned, up to the call of RunMigrations.
OtherPlan ==
    /\ other.pc = "ensure"
    /\ other.queries = <<>>
    /\ \E plan \in {PlanAfterEnsure(OtherEngine, fs, db, other.target)} :
           other' = [other EXCEPT
                        !.pc = IF plan.err = Nil /\ plan.runnable # <<>> THEN "run" ELSE "done",
                        !.err = plan.err,
                        !.dbVersion = plan.dbVersion,
                        !.targetVersion = plan.targetVersion,
                        !.runnable = plan.runnable]
    /\ UNCHANGED <<fs, edits, db, config, g, pc, call, prev, dbVersion, targetVersion,
                   runnable, idx, applied, ran, err, cancelled, ret>>

\* RunMigrations in the second process, first half of an iteration.
OtherRunScript ==
    /\ other.pc = "run"
    /\ LET m == other.runnable[other.idx]
           sqlScript == GetSQL(m, fs)
       IN  IF ~sqlScript.ok
           THEN other' = [other EXCEPT !.pc = "done", !.err = Error("read", m.Version)]
           ELSE IF ScriptFails(sqlScript.sql)
           THEN other' = [other EXCEPT !.pc = "done", !.err = Error("exec", m.Version)]
           ELSE other' = [other EXCEPT !.pc = "persist",
                                       !.ran = Append(@, <<m.Version, m.Action>>)]
    /\ UNCHANGED <<fs, edits, db, config, g, pc, call, prev, dbVersion, targetVersion,
                   runnable, idx, applied, ran, err, cancelled, ret>>

\* RunMigrations in the second process, second half of an iteration.
OtherPersist ==
    /\ other.pc = "persist"
    /\ LET m == other.runnable[other.idx]
           r == ExecQuery(db, PersistActionSql(m))
       IN  IF r.err # Nil
           THEN /\ other' = [other EXCEPT !.pc = "done", !.err = r.err]
                /\ UNCHANGED db
           ELSE /\ db' = r.db
                /\ other' = [other EXCEPT
                                !.applied = Append(@, m),
                                !.idx = @ + 1,
                                !.pc = IF other.idx + 1 > Len(other.runnable)
                                       THEN "done" ELSE "run"]
    /\ UNCHANGED <<fs, edits, config, g, pc, call, prev, dbVersion, targetVersion,
                   runnable, idx, applied, ran, err, cancelled, ret>>

\* The state table after every version has been applied from the test data.
AllApplied ==
    [columns |-> {"version", "name", "md5", "run_at"},
     rows |-> {Sentinel} \cup
              {Row(v, ValidString(<<"a">>), ValidString(Md5Sum(GoodSql))) : v \in Versions}]

\* The state at start: every migration pair on disk, and a database without
\* a state table or with every version applied.
InitTwo ==
    /\ fs = UNION {Pair(v) : v \in Versions}
    /\ edits = 0
    /\ db \in {[columns |-> {}, rows |-> {}], AllApplied}
    /\ config = [ValidateChecksums |-> TRUE, Newline |-> "", Driver |-> <<"p", "g">>]
    /\ g = NewGostgrator(config).g
    /\ pc = "idle"
    /\ call = NoCall
    /\ prev = NoPrev
    /\ dbVersion = 0
    /\ targetVersion = 0
    /\ runnable = <<>>
    /\ idx = 1
    /\ applied = <<>>
    /\ ran = <<>>
    /\ err = Nil
    /\ cancelled = FALSE
    /\ ret = NoRet
    /\ other = NoOther

\* Each process calls Migrate once.
NextTwo ==
    \/ \E target \in TargetsTwo : call = NoCall /\ Migrate(target)
    \/ RunScript
    \/ Persist
    \/ \E target \in TargetsTwo : other.pc = "idle" /\ OtherMigrate(target)
    \/ OtherExec
    \/ OtherPlan
    \/ OtherRunScript
    \/ OtherPersist

SpecTwo == InitTwo /\ [][NextTwo]_vars

(***************************************************************************)
(* Properties.                                                             *)
(***************************************************************************)
Done == pc = "done"
Succeeded == Done /\ err = Nil

\* The database version when the call started.
V0 == GetDatabaseVersion(call.db0)

Min(a, b) == IF a < b THEN a ELSE b

HasFile(v, action) ==
    \E f \in fs : Atoi(f.parts[1]) = [ok |-> TRUE, val |-> v] /\ f.parts[2] = action

HighestFile == MaxOf({0} \cup {Atoi(f.parts[1]).val : f \in fs})

MaxForms == {<<"m", "a", "x">>, <<" ", "M", "a", "x">>, <<>>}

\* The call asked for version t.
Asked(t) ==
    \/ call.target \in {Itoa(t), Pad3(t)}
    \/ call.target \in MaxForms /\ t = HighestFile

TargetRange == 0..(MaxVersion + 1)

Ascending(v, t) == [i \in 1..(t - v) |-> <<v + i, "do">>]
Descending(v, t) == [i \in 1..(v - t) |-> <<v + 1 - i, "undo">>]
AppliedScripts == [i \in 1..Len(applied) |-> <<applied[i].Version, applied[i].Action>>]

AppliedVersions(d) == {r.version : r \in {x \in d.rows : x.version > 0}}

\* Two files map to the same (version, action).
Duplicated ==
    \E f1, f2 \in fs :
        /\ f1 # f2
        /\ Atoi(f1.parts[1]).ok /\ Atoi(f2.parts[1]).ok
        /\ Atoi(f1.parts[1]).val = Atoi(f2.parts[1]).val
        /\ f1.parts[2] = f2.parts[2]

\* The Apply file of version v no longer has the checksum recorded for v.
Altered(v) ==
    \E r \in call.db0.rows, f \in fs :
        /\ r.version = v /\ v > 0 /\ r.md5.Valid
        /\ Atoi(f.parts[1]) = [ok |-> TRUE, val |-> v] /\ f.parts[2] = "do"
        /\ Md5Sum(f.content) # r.md5.String

\* C1: with Apply migrations for every version v+1..t, a successful
\* Migrate(t) from version v < t executes exactly the Apply scripts v+1..t in
\* ascending order, returns them in that order and leaves the database at t.
C1_MigrateUp ==
    \A t \in TargetRange :
        ( /\ Succeeded /\ call.op = "migrate" /\ call.target \in {Itoa(t), Pad3(t)}
          /\ V0 < t
          /\ \A k \in (V0 + 1)..t : HasFile(k, "do") )
        => /\ ran = Ascending(V0, t)
           /\ AppliedScripts = Ascending(V0, t)
           /\ GetDatabaseVersion(db) = t

C1_Witness ==
    /\ Succeeded /\ call.op = "migrate" /\ call.target = Pad3(MaxVersion)
    /\ V0 = 1
    /\ ran = Ascending(1, MaxVersion)
    /\ \A k \in 1..MaxVersion : HasFile(k, "do")

\* C2: with Revert migrations for every version 1..v, a successful
\* Migrate(t) from version v > t executes exactly the Revert scripts v..t+1 in
\* descending order, returns them in that order and leaves the database at t.
C2_MigrateDown ==
    \A t \in TargetRange :
        ( /\ Succeeded /\ call.op = "migrate" /\ call.target \in {Itoa(t), Pad3(t)}
          /\ t < V0
          /\ \A k \in 1..V0 : HasFile(k, "undo") )
        => /\ ran = Descending(V0, t)
           /\ AppliedScripts = Descending(V0, t)
           /\ GetDatabaseVersion(db) = t

\* C3: when a step of RunMigrations fails the run stops at once: the call
\* returns the error with exactly the migrations completed before the failing
\* one, no later script has run, the state-table changes of the completed
\* ones stay, and in the apply direction the database version is that of the
\* last migration applied.
RunErrors == {"read", "exec", "insert", "delete"}

C3_PartialFailure ==
    (Done /\ err.kind \in RunErrors)
    => /\ applied = SubSeq(runnable, 1, idx - 1)
       /\ err.version = runnable[idx].Version
       /\ \/ ran = AppliedScripts
          \/ ran = Append(AppliedScripts, <<runnable[idx].Version, runnable[idx].Action>>)
       /\ \A i \in 1..Len(applied) :
              (applied[i].Action = "do") <=> (applied[i].Version \in AppliedVersions(db))
       /\ \A v \in AppliedVersions(call.db0) \cup AppliedVersions(db) :
              (v \in AppliedVersions(call.db0)) # (v \in AppliedVersions(db))
                  => \E i \in 1..Len(applied) : applied[i].Version = v
       /\ targetVersion > dbVersion =>
              GetDatabaseVersion(db) =
                  IF applied = <<>> THEN V0 ELSE applied[Len(applied)].Version

C3_Witness ==
    /\ Done /\ err.kind = "exec"
    /\ Len(runnable) >= 2 /\ idx = 2
    /\ Len(applied) = 1
    /\ GetDatabaseVersion(db) = applied[1].Version

\* C4 as stated: once the content of an applied Apply migration is altered,
\* any later Migrate call fails with a checksum mismatch for that version and
\* applies nothing.
C4_Checksum_Original ==
    (Done /\ call.op = "migrate" /\ \E v \in Versions : Altered(v))
    => /\ err.kind = "checksum" /\ Altered(err.version)
       /\ ran = <<>> /\ applied = <<>>
       /\ db.rows = call.db0.rows

\* C4 amended: ... a later Migrate call whose target is a version at or above
\* the current database version, over files that load, fails with a checksum
\* mismatch for an altered version and applies nothing.
C4_Checksum ==
    \A t \in TargetRange :
        ( /\ Done /\ call.op = "migrate" /\ Asked(t) /\ t >= V0
          /\ ~Duplicated
          /\ \E v \in Versions : Altered(v) )
        => /\ err.kind = "checksum" /\ Altered(err.version)
           /\ ran = <<>> /\ applied = <<>>
           /\ db = call.db0

C4_Witness ==
    /\ Done /\ call.op = "migrate" /\ call.target = <<"m", "a", "x">>
    /\ V0 >= 1 /\ V0 < HighestFile
    /\ Altered(1)
    /\ err = Error("checksum", 1)

\* C5 as stated: Migrate("max") followed at once by Migrate("0"), both
\* succeeding, leaves the database version at its value before the first call.
MaxThenZero ==
    /\ Succeeded /\ call.op = "migrate" /\ call.target = Pad3(0)
    /\ prev.op = "migrate" /\ prev.target = <<"m", "a", "x">> /\ prev.err = Nil

C5_RoundTrip_Original ==
    MaxThenZero => GetDatabaseVersion(db) = GetDatabaseVersion(prev.db0)

\* C5 amended: ... leaves the database version at 0 when every recorded
\* version has a Revert migration; that is the value before the first call
\* when the database started at version 0.
C5_RoundTrip ==
    (MaxThenZero /\ \A v \in AppliedVersions(call.db0) : HasFile(v, "undo"))
    => /\ GetDatabaseVersion(db) = 0
       /\ GetDatabaseVersion(prev.db0) = 0 =>
              GetDatabaseVersion(db) = GetDatabaseVersion(prev.db0)

C5_Witness ==
    /\ MaxThenZero
    /\ GetDatabaseVersion(prev.db0) = 0
    /\ V0 = MaxVersion
    /\ Len(ran) = MaxVersion
    /\ GetDatabaseVersion(db) = 0

\* C6: Down(steps) from version v does what Migrate(max(v - steps, 0)) does
\* from the same state: same scripts in the same order, same returned list,
\* same error, same database.
C6_DownIsMigrate ==
    (Done /\ call.op = "down")
    => LET target == IF V0 - call.steps > 0 THEN V0 - call.steps ELSE 0
           m == MigrateOutcome(g, fs, call.db0, Itoa(target))
       IN  /\ ran = m.ran
           /\ applied = m.applied
           /\ err = m.err
           /\ db = m.db

C6_Witness ==
    /\ Done /\ call.op = "down" /\ call.steps = 2
    /\ V0 = MaxVersion
    /\ ran = Descending(MaxVersion, MaxVersion - 2)

\* C7: Down(n) rolls back exactly the n most recently applied migrations, all
\* of them when fewer than n are applied.
C7_DownCount ==
    ( /\ Succeeded /\ call.op = "down"
      /\ \A v \in AppliedVersions(call.db0) : HasFile(v, "undo") )
    => LET recorded == AppliedVersions(call.db0)
           n == Min(call.steps, Cardinality(recorded))
       IN  /\ Len(applied) = n
           /\ \A i \in 1..Len(applied) :
                  /\ applied[i].Version \in recorded
                  /\ Cardinality({v \in recorded : v > applied[i].Version}) < n

\* C8 as stated: Migrate(t) with t the current database version returns an
\* empty list and no error, runs no script and leaves every row unchanged.
C8_SameVersion_Original ==
    (Done /\ call.op = "migrate" /\ Asked(V0))
    => /\ err = Nil
       /\ applied = <<>> /\ ran = <<>>
       /\ AppliedVersions(db) = AppliedVersions(call.db0)
       /\ call.db0.rows \subseteq db.rows

\* C8 amended: ... runs no script, returns an empty list and changes nothing
\* in the database beyond what EnsureTable does; it returns no error exactly
\* when the files load and no applied Apply migration has been altered.
C8_SameVersion ==
    (Done /\ call.op = "migrate" /\ Asked(V0))
    => /\ applied = <<>> /\ ran = <<>>
       /\ db = EnsureTable(call.db0).db
       /\ AppliedVersions(db) = AppliedVersions(call.db0)
       /\ call.db0.rows \subseteq db.rows
       /\ err = Nil <=> (~Duplicated /\ \A v \in Versions : ~Altered(v))

C8_Witness ==
    /\ Succeeded /\ call.op = "migrate" /\ call.target = Pad3(2)
    /\ V0 = 2
    /\ ran = <<>>
    /\ db = call.db0

\* C9: when two files map to the same (version, action), loading fails with
\* the duplicate error and yields no migrations, and a Migrate call returns
\* that error having run no script and left the database version alone.
C9_Duplicate ==
    Duplicated
    => /\ getMigrations(g.cfg, fs).err.kind = "duplicate"
       /\ getMigrations(g.cfg, fs).migrations = <<>>
       /\ (Done /\ call.op \in {"migrate", "down"})
              => /\ err.kind = "duplicate"
                 /\ ran = <<>> /\ applied = <<>>
                 /\ GetDatabaseVersion(db) = V0

C9_Witness ==
    /\ Duplicated
    /\ Done /\ call.op = "migrate" /\ call.target = <<"m", "a", "x">>
    /\ V0 >= 1
    /\ err.kind = "duplicate"

\* C10: EnsureTable called twice in a row succeeds both times and the second
\* call leaves the columns and rows the first one left.
C10_EnsureTwice ==
    /\ (Done /\ call.op = "ensure" /\ prev.op = "ensure")
           => /\ prev.err = Nil /\ err = Nil
              /\ db = call.db0
    /\ LET once == EnsureTable(db)
       IN  /\ once.err = Nil
           /\ EnsureTable(once.db) = once

C10_Witness ==
    /\ Done /\ call.op = "ensure" /\ prev.op = "ensure"
    /\ prev.db0.columns = {"version"}
    /\ call.db0 # prev.db0
    /\ db = call.db0

\* The call is a Migrate to the target of the Migrate before it, which failed
\* on a script, and no script on disk is broken any more.
Retry ==
    /\ Done /\ call.op = "migrate"
    /\ prev.op = "migrate" /\ prev.err.kind = "exec"
    /\ call.target = prev.target
    /\ ~cancelled
    /\ \A f \in fs : ~ScriptFails(f.content)

ApplyVersions(low, high) == {v \in (low + 1)..high : HasFile(v, "do")}

Between(x, a, b) == (a <= x /\ x <= b) \/ (b <= x /\ x <= a)

\* C12: during a Migrate(t) started at version v every step leaves the
\* database version between v and t, moves it only toward t, and changes at
\* most one migration's row.
C12_TowardTarget ==
    [][ (call.op = "migrate" /\ pc \in {"run", "persist"})
        => LET before == GetDatabaseVersion(db)
               after == GetDatabaseVersion(db')
           IN  /\ Between(after, dbVersion, targetVersion)
               /\ Between(after, before, targetVersion)
               /\ Cardinality((db.rows \ db'.rows) \cup (db'.rows \ db.rows)) <= 1
      ]_vars

RunnableScripts == [i \in 1..Len(runnable) |-> <<runnable[i].Version, runnable[i].Action>>]

\* C13: within one RunMigrations call the migrations run one after the other
\* in the given order: the scripts executed and the migrations persisted are
\* both a prefix of the list, a script is executed only when every earlier
\* migration's state-table change has been persisted, and a migration whose
\* turn has not come has changed nothing in the state table.
C13_Sequential ==
    (call.op \in {"migrate", "down"} /\ pc \in {"run", "persist", "done"})
    => /\ applied = SubSeq(runnable, 1, Len(applied))
       /\ ran = SubSeq(RunnableScripts, 1, Len(ran))
       /\ pc = "run" => (Len(ran) = Len(applied) /\ idx = Len(applied) + 1)
       /\ pc = "persist" => (Len(ran) = Len(applied) + 1 /\ idx = Len(ran))
       /\ pc = "done" => Len(ran) - Len(applied) \in {0, 1}
       /\ \A i \in 1..Len(runnable) :
              LET v == runnable[i].Version
              IN  IF i <= Len(applied)
                  THEN (runnable[i].Action = "do") <=> (v \in AppliedVersions(db))
                  ELSE (v \in AppliedVersions(db)) <=> (v \in AppliedVersions(call.db0))

C13_Witness ==
    /\ call.op = "migrate" /\ pc = "persist"
    /\ Len(runnable) = MaxVersion
    /\ idx = 2
    /\ ran = SubSeq(RunnableScripts, 1, 2)
    /\ applied = SubSeq(runnable, 1, 1)
    /\ applied[1].Version \in AppliedVersions(db)
    /\ runnable[2].Version \notin AppliedVersions(db)

\* C14: when the context is cancelled before the script of the k-th migration
\* of a run is executed, the next step of the run executes no script and ends
\* the call with the cancellation error and the k-1 migrations already
\* applied, the database left as those k-1 left it.
C14_Cancelled ==
    [][ (cancelled /\ pc = "run")
        => /\ pc' = "done"
           /\ err' = Error("cancelled", runnable[idx].Version)
           /\ ran' = ran
           /\ applied' = applied
           /\ applied' = SubSeq(runnable, 1, idx - 1)
           /\ ran' = [i \in 1..(idx - 1) |-> RunnableScripts[i]]
           /\ db' = db
      ]_vars

C14_Witness ==
    /\ Done /\ call.op = "migrate" /\ cancelled
    /\ err = Error("cancelled", 2)
    /\ Len(runnable) = MaxVersion
    /\ Len(applied) = 1
    /\ ran = AppliedScripts
    /\ GetDatabaseVersion(db) = 1

\* The target of the call is neither "max" nor empty nor an integer.
InvalidTarget ==
    LET cleaned == ToLower(TrimSpace(call.target))
    IN  cleaned \notin {<<"m", "a", "x">>, <<>>} /\ ~Atoi(cleaned).ok

\* C15: a Migrate whose target is neither "max"/empty nor an integer fails
\* with the invalid-target-version error before any database work: the state
\* table is neither created nor altered and no script is executed.
C15_InvalidTarget ==
    (Done /\ call.op = "migrate" /\ InvalidTarget)
    => /\ err.kind = "invalid target version"
       /\ db = call.db0
       /\ ran = <<>> /\ applied = <<>>

\* C16: an engine constructed from a Config with ValidateChecksums = false
\* never fails a Migrate with a checksum mismatch, whatever was done to the
\* files of applied migrations.
C16_ValidationOff ==
    (~config.ValidateChecksums /\ Done /\ call.op = "migrate")
    => err.kind # "checksum"

\* C17: within Migrate the checksums are validated exactly when validation is
\* enabled in the engine's cfg and the target is at or above the database
\* version: a request below the database version never fails with a checksum
\* mismatch, and a request at or above it over an altered applied migration
\* fails with the mismatch before any script runs or any row changes.
C17_WhenValidated ==
    \A t \in TargetRange :
        (Done /\ call.op = "migrate" /\ Asked(t) /\ ~Duplicated)
        => /\ (err.kind = "checksum")
                  <=> (g.cfg.ValidateChecksums /\ t >= V0 /\ \E v \in Versions : Altered(v))
           /\ err.kind = "checksum"
                  => (ran = <<>> /\ applied = <<>> /\ db = call.db0 /\ Altered(err.version))

C17_Witness ==
    /\ Succeeded /\ call.op = "migrate" /\ call.target = Pad3(1)
    /\ V0 = MaxVersion
    /\ Altered(1)
    /\ ran = Descending(MaxVersion, 1)
    /\ GetDatabaseVersion(db) = 1

\* C18: GetDatabaseVersion returns 0 when the state table does not exist, 0
\* when the table is empty or holds only the version 0 row, and otherwise the
\* highest version in the table.
C18_DatabaseVersion ==
    (Done /\ call.op = "version")
    => /\ err = Nil
       /\ db = call.db0
       /\ db.columns = {} => ret.version = 0
       /\ (\A r \in db.rows : r.version = 0) => ret.version = 0
       /\ (db.columns # {} /\ \E r \in db.rows : r.version > 0)
              => /\ \E r \in db.rows : r.version = ret.version
                 /\ \A r \in db.rows : r.version <= ret.version

C18_Witness ==
    /\ Done /\ call.op = "version"
    /\ \E r \in db.rows : r.version = 0
    /\ \E r \in db.rows : r.version = 1
    /\ ret.version = MaxVersion

\* C19: after a successful Migrate to "max" (in any letter case, or with the
\* empty target) GetDatabaseVersion equals GetMaxVersion, the highest version
\* among the loaded migrations.
C19_MaxReached ==
    (Succeeded /\ call.op = "migrate" /\ call.target \in MaxForms)
    => /\ GetMaxVersion(g.migrations, g.cfg, fs).err = Nil
       /\ GetDatabaseVersion(db) = GetMaxVersion(g.migrations, g.cfg, fs).max

\* C20: no engine call works from migrations loaded by an earlier call:
\* GetMaxVersion returns the highest version on disk at the time of the call,
\* GetMigrations returns the migrations of the files on disk, and Migrate
\* works from them.
C20_NoCache ==
    /\ (Done /\ call.op = "maxversion" /\ err = Nil) => ret.version = HighestFile
    /\ (Done /\ call.op = "migrations" /\ err = Nil)
           => ret.migrations = getMigrations(g.cfg, fs).migrations
    /\ (Done /\ call.op = "migrate" /\ err.kind # "duplicate")
           => g.migrations = getMigrations(g.cfg, fs).migrations

\* <version>.<do|undo>[.<name>].sql with a version of decimal digits.
WellFormed(f) ==
    /\ Len(f.parts) >= 2
    /\ f.parts[1] # <<>>
    /\ \A i \in 1..Len(f.parts[1]) : IsDigit(f.parts[1][i])
    /\ f.parts[2] \in FileActions

\* C21: over a folder of well-formed migration file names with unique
\* (version, action) pairs the loader succeeds and returns exactly one
\* Migration per file: its version the integer value of the first segment,
\* its action the second segment, its name the remaining segments joined
\* with "." (empty when there are none).
C21_Loader ==
    ( /\ Done /\ call.op = "migrations"
      /\ \A f \in fs : WellFormed(f)
      /\ ~Duplicated )
    => /\ err = Nil
       /\ Len(ret.migrations) = Cardinality(fs)
       /\ \A f \in fs :
              \E i \in 1..Len(ret.migrations) :
                  LET m == ret.migrations[i]
                  IN  /\ m.Filename = f.parts
                      /\ m.Version = DigitsValue(f.parts[1], 0)
                      /\ m.Action = f.parts[2]
                      /\ IF Len(f.parts) = 2 THEN m.Name = <<>>
                         ELSE Split(m.Name, ".") = SubSeq(f.parts, 3, Len(f.parts))

C21_Witness ==
    /\ Succeeded /\ call.op = "migrations"
    /\ \A f \in fs : WellFormed(f)
    /\ \E f \in fs : Len(f.parts) = 2
    /\ \E f \in fs : Len(f.parts) = 4
    /\ \E f \in fs : f.parts[1] = Pad3(3) /\ f.parts[3] = <<"a", "d", "d", "-", "n", "e", "w">>
    /\ Len(ret.migrations) = 4
    /\ \E i \in 1..4 : ret.migrations[i].Name = <<"b", ".", "c">>

\* The versions of the files whose second segment is "do" or "undo".
MigrationFileVersions ==
    {Atoi(f.parts[1]).val :
         f \in {x \in fs : Len(x.parts) >= 2 /\ Atoi(x.parts[1]).ok /\ x.parts[2] \in FileActions}}

\* C22: a .sql file whose second segment is neither "do" nor "undo" is
\* skipped by the loader: it is not among the loaded migrations, it raises no
\* duplicate error, and it does not move the target of Migrate("max").
C22_Skipped ==
    /\ (Done /\ call.op = "migrations" /\ err = Nil)
           => \A i \in 1..Len(ret.migrations) : ret.migrations[i].Action \in FileActions
    /\ (Done /\ call.op = "migrations" /\ err.kind = "duplicate")
           => err.version \in MigrationFileVersions
    /\ (Done /\ call.op = "migrate" /\ err = Nil)
           => targetVersion = MaxOf({0} \cup MigrationFileVersions)

\* The files are exactly the pairs numbered 1..k, three digits each.
NumberedPairs(files, k) ==
    /\ Cardinality(files) = 2 * k
    /\ \A f \in files :
           /\ Len(f.parts) = 3
           /\ Len(f.parts[1]) = 3
           /\ Atoi(f.parts[1]).ok /\ Atoi(f.parts[1]).val \in 1..k
           /\ f.parts[2] \in FileActions
    /\ \A i \in 1..k, a \in FileActions :
           \E f \in files : Atoi(f.parts[1]).val = i /\ f.parts[2] = a

\* C23: in integer mode CreateMigration adds exactly two files,
\* <n>.do.<slug>.sql and <n>.undo.<slug>.sql, n being the highest integer
\* prefix among the files of the folder plus one, written with three digits;
\* on an empty folder that is the pair 001, and the n-th call in a row
\* creates the pair numbered n.
C23_CreateNumbered ==
    [][ (call'.op = "create" /\ pc' = "done" /\ edits' = edits + 1)
        => LET n == MaxOf({0} \cup {Atoi(f.parts[1]).val :
                                        f \in {x \in fs : Atoi(x.parts[1]).ok}}) + 1
               new == fs' \ fs
           IN  /\ fs \subseteq fs'
               /\ Cardinality(new) = 2
               /\ \A f \in new :
                      /\ Len(f.parts) = 3
                      /\ Len(f.parts[1]) = 3
                      /\ Atoi(f.parts[1]) = [ok |-> TRUE, val |-> n]
               /\ {f.parts[2] : f \in new} = FileActions
               /\ Cardinality({f.parts[3] : f \in new}) = 1
               /\ fs = {} => \A f \in new : f.parts[1] = <<"0", "0", "1">>
               /\ \A k \in 0..MaxCreated :
                      NumberedPairs(fs, k) => NumberedPairs(fs', k + 1)
      ]_vars

C23_Witness ==
    /\ Done /\ call.op = "create" /\ edits = 2
    /\ NumberedPairs(fs, 2)
    /\ \E f \in fs : f.parts = <<<<"0", "0", "2">>, "undo", <<"a", "d", "d", "-", "n", "e", "w">>>>
                     /\ f.content = UndoContent

\* The versions whose script of the given action this call has executed.
RanVersions(action) == {ran[i][1] : i \in {j \in 1..Len(ran) : ran[j][2] = action}}

\* C24: the rows above version 0 follow the migrations that run: a step
\* inserts a row only when it persists an Apply migration whose script has
\* just run, and then exactly that version's row; it deletes a row only when
\* it persists the Revert migration of that version; and after a successful
\* Migrate or Down the rows are those the call found, plus the versions it
\* applied, minus the versions it reverted.
C24_RowLifecycle ==
    /\ [](Succeeded /\ call.op \in {"migrate", "down"}
            => AppliedVersions(db) =
                   (AppliedVersions(call.db0) \cup RanVersions("do")) \ RanVersions("undo"))
    /\ [][ LET inserted == AppliedVersions(db') \ AppliedVersions(db)
               deleted == AppliedVersions(db) \ AppliedVersions(db')
           IN  /\ inserted # {} =>
                      /\ pc = "persist" /\ runnable[idx].Action = "do"
                      /\ inserted = {runnable[idx].Version}
                      /\ ran[Len(ran)] = <<runnable[idx].Version, "do">>
               /\ deleted # {} =>
                      /\ pc = "persist" /\ runnable[idx].Action = "undo"
                      /\ deleted = {runnable[idx].Version}
                      /\ ran[Len(ran)] = <<runnable[idx].Version, "undo">>
               /\ (pc = "persist" /\ applied' # applied) =>
                      /\ runnable[idx].Action = "do" => runnable[idx].Version \in AppliedVersions(db')
                      /\ runnable[idx].Action = "undo" => runnable[idx].Version \notin AppliedVersions(db')
         ]_vars

C24_Witness ==
    /\ Succeeded /\ call.op = "down" /\ call.steps = 1
    /\ AppliedVersions(call.db0) = 1..MaxVersion
    /\ RanVersions("undo") = {MaxVersion}
    /\ AppliedVersions(db) = 1..(MaxVersion - 1)

OtherRunnableScripts ==
    [i \in 1..Len(other.runnable) |-> <<other.runnable[i].Version, other.runnable[i].Action>>]

\* C25: nothing in the engine makes one process wait for another: a process
\* can enter Migrate and can execute its next script whatever the position
\* of the other process, and two processes that read the same database
\* version for the same target hold the same list of scripts to execute.
C25_NoMutualExclusion ==
    /\ other.pc = "idle" => ENABLED OtherMigrate(<<"m", "a", "x">>)
    /\ pc = "run" => ENABLED RunScript
    /\ other.pc = "run" => ENABLED OtherRunScript
    /\ ( /\ call.op = "migrate" /\ pc \in {"run", "persist"}
         /\ other.pc \in {"run", "persist"}
         /\ dbVersion = other.dbVersion
         /\ targetVersion = other.targetVersion )
       => RunnableScripts = OtherRunnableScripts

C25_Witness ==
    /\ call.op = "migrate" /\ pc = "persist" /\ other.pc = "persist"
    /\ dbVersion = 0 /\ other.dbVersion = 0
    /\ targetVersion = MaxVersion /\ other.targetVersion = MaxVersion
    /\ idx = 1 /\ other.idx = 1
    /\ ran = <<<<1, "do">>>> /\ other.ran = <<<<1, "do">>>>
    /\ AppliedVersions(db) = {}

\* C26: the state table never holds two rows of one version, whatever the
\* interleaving of two Migrate calls: the insert of a version that is
\* already recorded fails with an error and changes nothing.
C26_OneRowPerVersion ==
    /\ [](\A r1, r2 \in db.rows : r1.version = r2.version => r1 = r2)
    /\ [][ /\ ( /\ pc = "persist" /\ pc' # "persist"
                /\ runnable[idx].Action = "do"
                /\ \E r \in db.rows : r.version = runnable[idx].Version )
              => /\ pc' = "done"
                 /\ err' = Error("insert", runnable[idx].Version)
                 /\ db' = db
           /\ ( /\ other.pc = "persist" /\ other'.pc # "persist"
                /\ other.runnable[other.idx].Action = "do"
                /\ \E r \in db.rows : r.version = other.runnable[other.idx].Version )
              => /\ other'.pc = "done"
                 /\ other'.err = Error("insert", other.runnable[other.idx].Version)
                 /\ db' = db
         ]_vars

C26_Witness ==
    /\ other.pc = "done" /\ other.err = Error("insert", 1)
    /\ other.ran = <<<<1, "do">>>>
    /\ <<1, "do">> \in {ran[i] : i \in 1..Len(ran)}
    /\ \E r \in db.rows : r.version = 1 /\ r.md5 = ValidString(Md5Sum(GoodSql))
    /\ Cardinality({r \in db.rows : r.version = 1}) = 1

ReadOps == {"version", "migrations", "maxversion"}

\* C27: GetDatabaseVersion, GetMigrations and GetMaxVersion leave the database
\* as they found it: no state table is created and no row is inserted,
\* changed or deleted.
C27_ReadOnly ==
    /\ []((Done /\ call.op \in ReadOps) => db = call.db0)
    /\ [][ call'.op \in ReadOps => (db' = db /\ call'.db0 = db) ]_vars

C27_Witness ==
    /\ Done /\ call.op = "version"
    /\ db.columns = {}
    /\ ret.version = 0
    /\ Len(g.migrations) = 2 * MaxVersion

SupportedDriver(driver) == ToLower(driver) \in {<<"p", "g">>, <<"s", "q", "l", "i", "t", "e", "3">>}

\* C28: NewGostgrator with a driver name that is, letter case aside, neither
\* "pg" nor "sqlite3" returns the unsupported-driver error and no engine, and
\* without an engine no operation starts; with a supported name it returns an
\* engine and no error.
C28_UnsupportedDriver ==
    pc # "new"
    => /\ ~SupportedDriver(config.Driver)
              => /\ pc = "failed"
                 /\ err.kind = "unsupported driver"
                 /\ g = NoEngine
                 /\ call = NoCall /\ ran = <<>> /\ db = [columns |-> {}, rows |-> {}]
                 /\ ~ENABLED (\/ CallGetMigrations
                              \/ CallGetMaxVersion
                              \/ Migrate(<<"m", "a", "x">>)
                              \/ \E description \in Descriptions : CreateMigration(description, IntMode, 0))
       /\ SupportedDriver(config.Driver)
              => /\ pc # "failed"
                 /\ g.client \in {"pg", "sqlite3"}
                 /\ g.cfg.Driver = config.Driver

C28_Witness ==
    /\ pc = "failed"
    /\ config.Driver = <<"m", "y", "s", "q", "l">>
    /\ err = Error("unsupported driver", 0)
    /\ g.client = "nil"

\* C29: when RunMigrations has returned, with or without an error, every
\* migration whose script was executed has had its state-table change
\* persisted: the scripts executed are those of the migrations returned as
\* applied, and the row of each is there for an Apply and gone for a Revert.
C29_ExecutedIsRecorded ==
    (Done /\ call.op \in {"migrate", "down"})
    => /\ ran = AppliedScripts
       /\ \A i \in 1..Len(ran) :
              (ran[i][2] = "do") <=> (ran[i][1] \in AppliedVersions(db))

AddedColumns == {"name", "md5", "run_at"}

\* EnsureTable took the database from before to after by additions only.
Additive(before, after) ==
    /\ before.columns \subseteq after.columns
    /\ before.rows \subseteq after.rows
    /\ IF before.columns = {}
       THEN /\ after.columns = {"version"} \cup AddedColumns
            /\ after.rows = before.rows \cup {Sentinel}
       ELSE /\ after.rows = before.rows
            /\ after.columns \ before.columns =
                   {c \in AddedColumns : \A b \in before.columns : FoldColumn(b) # c}

\* C30: EnsureTable only adds: on a table without columns it creates the
\* table and inserts the version 0 row; otherwise it adds those of name, md5
\* and run_at that are missing and nothing else; no column is dropped or
\* renamed and no row is deleted or changed.
C30_Additive ==
    /\ (Done /\ call.op = "ensure") => (err = Nil /\ Additive(call.db0, db))
    /\ EnsureTable(db).err = Nil /\ Additive(db, EnsureTable(db).db)

C30_Witness ==
    /\ Done /\ call.op = "ensure"
    /\ call.db0.columns = {"version", "name", "md5"}
    /\ call.db0.rows = {Sentinel}
    /\ db.columns = {"version", "name", "md5", "run_at"}
    /\ db.rows = {Sentinel}

\* C34: a Migrate call never executes an Apply script whose version is at or
\* below the database version read at the start of the call; an Apply file
\* added later with a version below the database version is never run.
C34_NoApplyBelowCurrent ==
    call.op \in {"migrate", "down"} =>
        \A i \in 1..Len(ran) : ran[i][2] = "do" => ran[i][1] > V0

\* A successful Migrate to "max" with the database at MaxVersion while the
\* folder holds an Apply file of a lower version that was never recorded.
C34_Witness ==
    /\ Succeeded /\ call.op = "migrate" /\ call.target \in MaxForms
    /\ V0 = MaxVersion /\ ran = <<>>
    /\ \E v \in 1..(MaxVersion - 1) :
        HasFile(v, "do") /\ v \notin AppliedVersions(db)

\* The folder loads, no applied Apply file was altered and no script fails.
Clean ==
    /\ ~Duplicated
    /\ \A v \in Versions : ~Altered(v)
    /\ \A f \in fs : ~ScriptFails(f.content)

HighestApply == MaxOf({0} \cup {v \in TargetRange : HasFile(v, "do")})

\* The pending Apply versions between the version at entry and t were run in
\* ascending order, all of them, and recorded.
RanPending(t) ==
    /\ Len(ran) = Cardinality(ApplyVersions(V0, t))
    /\ \A i \in 1..Len(ran) : ran[i][2] = "do" /\ ran[i][1] \in ApplyVersions(V0, t)
    /\ \A i, j \in 1..Len(ran) : i < j => ran[i][1] < ran[j][1]
    /\ AppliedScripts = ran

\* C37 as stated: Migrate(t) with an integer t above the highest migration
\* version does not fail, applies every pending Apply migration in ascending
\* order and leaves the database at the highest Apply version available.
C37_AboveMax_Original ==
    \A t \in TargetRange :
        (Done /\ call.op = "migrate" /\ call.target = Itoa(t) /\ t > HighestFile /\ Clean)
            => /\ err = Nil
               /\ RanPending(t)
               /\ GetDatabaseVersion(db) = HighestApply

\* C37 (amended): Migrate(t) with an integer t above the highest migration
\* version does not fail, applies every pending Apply migration in ascending
\* order and leaves the database at the highest pending Apply version, or at
\* the version it had when no Apply migration is pending.
C37_AboveMax ==
    \A t \in TargetRange :
        (Done /\ call.op = "migrate" /\ call.target = Itoa(t) /\ t > HighestFile /\ Clean)
            => /\ err = Nil
               /\ RanPending(t)
               /\ GetDatabaseVersion(db) = MaxOf({V0} \cup ApplyVersions(V0, t))
               /\ GetDatabaseVersion(db) < t

\* Migrate to MaxVersion + 1 from an empty database with every Apply file
\* present: all of them run and the database stops at MaxVersion.
C37_Witness ==
    /\ Succeeded /\ call.op = "migrate" /\ call.target = Itoa(MaxVersion + 1)
    /\ V0 = 0 /\ HighestFile = MaxVersion /\ Clean
    /\ Len(ran) = MaxVersion
    /\ GetDatabaseVersion(db) = MaxVersion

(***************************************************************************)
(* A third view of the engine: line-ending modes, state tables written by  *)
(* an older version of the tool, and ValidateMigrations called on its own. *)
(***************************************************************************)
\* Values of Config.Newline: unset, the three modes, and a word that is none.
Newlines == {"", "LF", "CR", "CRLF", "AUTO"}

\* The script of GoodSql saved with other line endings.
CrlfSql == <<"s", "\r", "\n">>
CrSql == <<"s", "\r">>

\* State tables found at start: none, and tables that predate the name and
\* md5 columns, with a row for version 1 and possibly one for a version whose
\* files are no longer in the folder.
LegacyTables ==
    {[columns |-> {}, rows |-> {}],
     [columns |-> {"version"},
      rows |-> {Sentinel, Row(1, NullString, NullString)}],
     [columns |-> {"version"},
      rows |-> {Sentinel, Row(1, NullString, NullString),
                Row(MaxVersion + 1, NullString, NullString)}]}

InitSums ==
    /\ fs \in {{}, UNION {Pair(v) : v \in 0..MaxVersion}}
    /\ edits = 0
    /\ db \in LegacyTables
    /\ \E nl \in Newlines :
           config = [ValidateChecksums |-> TRUE, Newline |-> nl, Driver |-> <<"p", "g">>]
    /\ g = NewGostgrator(config).g
    /\ pc = "idle"
    /\ call = NoCall
    /\ prev = NoPrev
    /\ dbVersion = 0
    /\ targetVersion = 0
    /\ runnable = <<>>
    /\ idx = 1
    /\ applied = <<>>
    /\ ran = <<>>
    /\ err = Nil
    /\ cancelled = FALSE
    /\ ret = NoRet
    /\ other = NoOther

\* Gostgrator.ValidateMigrations called on its own.
CallValidateMigrations(databaseVersion) ==
    /\ Returned
    /\ LET load == getMigrations(g.cfg, fs)
       IN  /\ err' = ValidateMigrations(g.cfg, fs, db, databaseVersion)
           /\ g' = IF load.err = Nil THEN [g EXCEPT !.migrations = load.migrations] ELSE g
           /\ ret' = [version |-> databaseVersion, migrations |-> <<>>]
    /\ ReadCall("validate")

TargetsSums == {<<"m", "a", "x">>, Pad3(2), Pad3(0)}

\* Files written between calls here: the Apply script of version 1 saved with
\* other line endings, and the Apply script of version 2 edited.
WritableSums ==
    {File(Pad3(1), "do", <<"a">>, CrlfSql),
     File(Pad3(1), "do", <<"a">>, CrSql),
     File(Pad3(2), "do", <<"a">>, OtherSql)}

\* Files removed between calls here: the Apply script of the highest version.
RemovableSums == {File(Pad3(MaxVersion), "do", <<"a">>, GoodSql)}

NextSums ==
    \/ \E target \in TargetsSums : Migrate(target)
    \/ \E steps \in {1, MaxVersion + 1} : Down(steps)
    \/ RunScript
    \/ Persist
    \/ \E databaseVersion \in {0, 2, MaxVersion + 1} : CallValidateMigrations(databaseVersion)
    \/ \E f \in WritableSums : WriteFile(f)
    \/ \E f \in RemovableSums : RemoveFile(f)

SpecSums == InitSums /\ [][NextSums]_vars

\* The state table holds a checksum for version v that differs from the
\* checksum of the Apply file of that version.
Mismatch(v) ==
    \E f \in fs, r \in db.rows :
        /\ Atoi(f.parts[1]) = [ok |-> TRUE, val |-> v] /\ f.parts[2] = "do"
        /\ r.version = v /\ r.md5.Valid
        /\ r.md5.String # checksum(f.content, config.Newline).sum

ValidNewline == config.Newline \in {"", "LF", "CR", "CRLF"}

RECURSIVE LinesFrom(_, _)
LinesFrom(content, line) ==
    IF content = <<>> THEN <<line>>
    ELSE IF Len(content) >= 2 /\ content[1] = "\r" /\ content[2] = "\n"
         THEN <<line>> \o LinesFrom(SubSeq(content, 3, Len(content)), <<>>)
    ELSE IF content[1] \in {"\r", "\n"}
         THEN <<line>> \o LinesFrom(Tail(content), <<>>)
    ELSE LinesFrom(Tail(content), Append(line, content[1]))

Lines(content) == LinesFrom(content, <<>>)

SameLines(c1, c2) == Lines(c1) = Lines(c2)

Terminators == {<<"\n">>, <<"\r">>, <<"\r", "\n">>}

\* Texts of one, two and three lines, an empty line among them, with and
\* without a terminator at the end.
LineSeqs ==
    {<<<<"s">>, <<>>>>,
     <<<<"s">>, <<>>, <<"t">>>>,
     <<<<"s">>, <<"t">>, <<>>>>}

\* Those texts saved in each style, one text saved with mixed terminators,
\* and the contents of the files on disk.
Styled ==
    {Join(l, t) : l \in LineSeqs, t \in Terminators}
        \cup {<<"s", "\r", "\n", "t", "\r">>}
        \cup {f.content : f \in fs}

Modes == {"LF", "CR", "CRLF"}

ApplyFile(v) ==
    CHOOSE f \in fs : Atoi(f.parts[1]) = [ok |-> TRUE, val |-> v] /\ f.parts[2] = "do"

\* C32: with a line-ending mode configured, two contents with the same lines
\* get the same checksum whatever terminates each line, and a checksum
\* mismatch is never reported for an Apply file that was only re-saved with
\* other line endings.
C32_LineEndings ==
    /\ \A mode \in Modes : \A c1, c2 \in Styled :
           SameLines(c1, c2) => checksum(c1, mode) = checksum(c2, mode)
    /\ (config.Newline \in Modes /\ err.kind = "checksum")
           => ~SameLines(ApplyFile(err.version).content, GoodSql)

\* With mode LF, version 1 was applied from the file with LF endings, the
\* file was then saved with CRLF endings, and the next Migrate validated it.
C32_Witness ==
    /\ Succeeded /\ call.op = "migrate" /\ config.Newline = "LF"
    /\ V0 >= 1 /\ dbVersion >= 1
    /\ File(Pad3(1), "do", <<"a">>, CrlfSql) \in fs
    /\ \E r \in db.rows :
           r.version = 1 /\ r.md5.Valid /\ r.md5.String = Md5Sum(GoodSql)

\* The folder holds a file the loader computes a checksum for.
Loadable == \E f \in fs : Len(f.parts) >= 2 /\ Atoi(f.parts[1]).ok

\* A call made with a line-ending mode that is none of LF, CR, CRLF.
InvalidModeCall ==
    Done /\ call.op \in {"migrate", "down"} /\ config.Newline # "" /\ ~ValidNewline

\* The call executed no script and left the recorded versions as they were.
NothingRun ==
    /\ ran = <<>> /\ applied = <<>>
    /\ GetDatabaseVersion(db) = V0
    /\ AppliedVersions(db) = AppliedVersions(call.db0)

\* C33 as stated: with a non-empty line-ending mode that is none of LF, CR,
\* CRLF, loading fails and Migrate returns the error without executing a
\* script or changing the database version.
C33_InvalidMode_Original ==
    InvalidModeCall => err.kind = "newline" /\ NothingRun

\* C33 (amended): with such a mode, loading fails as soon as the folder holds
\* one migration file, and Migrate then returns the error without executing a
\* script or changing the database version; with no migration file in the
\* folder loading succeeds and Migrate returns no error and does nothing.
C33_InvalidMode ==
    InvalidModeCall =>
        /\ NothingRun
        /\ Loadable => err.kind = "newline"
        /\ ~Loadable => err = Nil

\* Migrate with mode AUTO on a database without state table and a folder
\* with files: the table has been created, the error returned, nothing run.
C33_Witness ==
    /\ InvalidModeCall /\ call.op = "migrate" /\ Loadable
    /\ err.kind = "newline"
    /\ ~HasVersionTable(call.db0) /\ HasVersionTable(db)
    /\ NothingRun

\* C35: Migrate("max") never selects and never executes a Revert script,
\* whatever the database version and the files on disk.
C35_MaxNeverReverts ==
    (call.op = "migrate" /\ call.target \in MaxForms) =>
        /\ \A i \in 1..Len(runnable) : runnable[i].Action # "undo"
        /\ \A i \in 1..Len(ran) : ran[i][2] # "undo"

\* Migrate("max") has returned with the database version above the highest
\* file version and Revert files on disk: nothing run, the version as it was.
C35_Witness ==
    /\ Succeeded /\ call.op = "migrate" /\ call.target \in MaxForms
    /\ HighestFile = MaxVersion /\ HasFile(MaxVersion, "undo")
    /\ V0 > HighestFile
    /\ ran = <<>> /\ GetDatabaseVersion(db) = V0

\* C36: once the state table exists it holds the row of version 0, whatever
\* Migrate calls with a target >= 0 and Down calls have run: the table is
\* never empty and the database version never below 0.
C36_SentinelKept ==
    HasVersionTable(db) =>
        /\ \E r \in db.rows : r.version = 0
        /\ db.rows # {}
        /\ GetDatabaseVersion(db) >= 0

\* A Migrate to version 0 or a Down past version 0, with a Revert file of
\* version 0 on disk, has reverted every version and kept the row of 0.
C36_Witness ==
    /\ Succeeded /\ call.op \in {"migrate", "down"}
    /\ V0 >= 1 /\ targetVersion = 0
    /\ HasFile(0, "undo")
    /\ Len(ran) >= 1
    /\ \A i \in 1..Len(ran) : ran[i][2] = "undo" /\ ran[i][1] >= 1
    /\ GetDatabaseVersion(db) = 0
    /\ \E r \in db.rows : r.version = 0

(***************************************************************************)
(* The scaffolder in both modes, with the loader called on what it wrote.  *)
(***************************************************************************)
\* The second in which the first timestamp call is made (a Unix time, small).
Epoch == 10

\* Values time.Now().Unix() returns during the calls: two calls may fall in
\* the same second.
Times == {Epoch, Epoch + 1}

ScaffoldModes == {IntMode, <<"T", "i", "m", "e", "s", "t", "a", "m", "p">>}

InitScaffold ==
    /\ fs \in {{}, Pair(1)}
    /\ edits = 0
    /\ db = [columns |-> {}, rows |-> {}]
    /\ config = [ValidateChecksums |-> TRUE, Newline |-> "", Driver |-> <<"p", "g">>]
    /\ g = NewGostgrator(config).g
    /\ pc = "idle"
    /\ call = NoCall
    /\ prev = NoPrev
    /\ dbVersion = 0
    /\ targetVersion = 0
    /\ runnable = <<>>
    /\ idx = 1
    /\ applied = <<>>
    /\ ran = <<>>
    /\ err = Nil
    /\ cancelled = FALSE
    /\ ret = NoRet
    /\ other = NoOther

\* Descriptions given here: those above, one without a letter or digit and
\* one with a dot.
ScaffoldDescriptions == Descriptions \cup {<<"!">>, <<"v", ".", "2">>}

NextScaffold ==
    \/ \E description \in ScaffoldDescriptions, mode \in ScaffoldModes, now \in Times :
           CreateMigration(description, mode, now)
    \/ CallGetMigrations

SpecScaffold == InitScaffold /\ [][NextScaffold]_vars

\* A step that is a CreateMigration call.
CreateStep == call'.op = "create" /\ pc' = "done" /\ edits' = edits + 1

\* C38: in either mode CreateMigration writes two new files, replaces none,
\* and gives them a version that no file of the folder has, so that the
\* folder never comes to hold two migrations of one version and action.
C38_NeverReuses ==
    /\ [](getMigrations(g.cfg, fs).err.kind # "duplicate")
    /\ [][CreateStep =>
              /\ fs \subseteq fs'
              /\ Cardinality(fs' \ fs) = 2
              /\ \A f \in fs' \ fs, o \in fs :
                     ~(Atoi(o.parts[1]).ok /\ Atoi(o.parts[1]) = Atoi(f.parts[1]))
         ]_vars

\* C39: called on a folder that loads, CreateMigration leaves a folder that
\* loads, and the two files it wrote are loaded as one Apply and one Revert
\* migration of one version, both named by the slug of the description.
C39_RoundTrip ==
    [][ (CreateStep /\ getMigrations(g.cfg, fs).err = Nil) =>
            LET load == getMigrations(g.cfg, fs')
                slug == kebabCase(call'.target)
                ms == load.migrations
            IN  /\ load.err = Nil
                /\ \E i, j \in 1..Len(ms) :
                       /\ ms[i].Action = "do" /\ ms[j].Action = "undo"
                       /\ ms[i].Version = ms[j].Version
                       /\ ms[i].Name = slug /\ ms[j].Name = slug
                       /\ GetSQL(ms[i], fs') = [ok |-> TRUE, sql |-> DoContent]
                       /\ GetSQL(ms[j], fs') = [ok |-> TRUE, sql |-> UndoContent]
                       /\ \A k \in 1..Len(ms) :
                              (ms[k].Version = ms[i].Version /\ k # i) => k = j
      ]_vars

====
